---- MODULE Spec2Model ----
(***************************************************************************)
(* Model of treadmill's presence module                                    *)
(* (src/lib/python/treadmill/presence.py):                                 *)
(*   - ServicePresence: start of services under a restart policy, exit     *)
(*     capture and exit reporting against the durable finish log and the   *)
(*     persisted "reported" cursor;                                        *)
(*   - EndpointPresence: ephemeral presence records in Zookeeper.          *)
(*                                                                         *)
(* Files are modelled by their content: the finish log `finished` is the   *)
(* sequence of its rows, the cursor file `reported` is the integer it      *)
(* holds; NoFile stands for a file that does not exist.  The supervisor    *)
(* (s6), the clock and the other Zookeeper sessions are the environment.   *)
(***************************************************************************)
EXTENDS Integers, Sequences, FiniteSets, TLC

VARIABLES
    manifest,     \* the manifest: [task, services, endpoints]
    hostname,     \* EndpointPresence.hostname
    zk,           \* Zookeeper: path -> Nothing (no node) or Some(data)
    finished,     \* per service: <svc_dir>/finished, NoFile or the rows
    reported,     \* per service: <svc_dir>/reported, NoFile or the count
    up,           \* per service: the supervisor reports the service up
    downFile,     \* per service: <svc_dir>/down exists
    last_exit,    \* per service: self.services[name]['last_exit'] (memory)
    now,          \* time.time()
    iter_order,   \* the order in which `for x in self.services` iterates
    foreign,      \* Zookeeper: the paths whose node another session created
    pc,           \* where a stepwise unregistration of this process stands
    cell,         \* Zookeeper: servers, placement and scheduled manifests
    exitinfo,     \* <container_dir>/exitinfo: what was written to it, in order
    refused,      \* history: per service, start_service has returned False
    posts,        \* history: per service, row count -> exit events posted
    postCrashes,  \* history: per service, row count -> crashes after post
    starts,       \* history: per service, `s6-svc -o` calls of start_service
    lastOp        \* history: the last operation, its result and effects

lifeVars == <<manifest, finished, reported, up, downFile, last_exit, now,
              iter_order, exitinfo>>
histVars == <<posts, postCrashes, starts, lastOp, refused>>
presVars == <<hostname, zk, foreign, pc, cell>>
vars == <<lifeVars, presVars, histVars>>

(***************************************************************************)
(* Bounds of the model.                                                    *)
(***************************************************************************)
MaxRows == 2        \* rows the supervisor appends to a finish log
MaxCrashes == 1     \* crashes between posting and persisting, per service
MaxTicks == 2       \* clock steps
MaxLogLen == 6      \* rows of a finish log found at start

(***************************************************************************)
(* Program constants.                                                      *)
(***************************************************************************)
MAX_RESTART_RATE == 5
RESTART_RATE_INTERVAL == 60

ServiceNames == {"web", "db"}

\* One clock step; half the rate interval, so that ages of exactly the
\* interval, below it and above it all occur.
TickStep == RESTART_RATE_INTERVAL \div 2

\* (rc, signal) pairs the supervisor records in a finish-log row.
ExitCodes == {<<0, 0>>, <<1, 9>>}

\* A value that may be missing is a sequence of length 0 or 1:
\* <<>> is Python's None (or a file that does not exist), <<v>> is v.
Nothing == <<>>
Some(v) == <<v>>

\* A finish-log row "timestamp rc signal".
Row(ts, rc, sig) == [timestamp |-> ts, rc |-> rc, sig |-> sig]

\* <svc_dir>/finished as a file: whether it exists, and its rows.
NoFinished == [exists |-> FALSE, lines |-> <<>>]
Finished(rows) == [exists |-> TRUE, lines |-> rows]

\* self.services: the manifest's services by name (a later entry of the
\* same name replaces an earlier one); the value is the entry's index.
services == [n \in {manifest.services[i].name : i \in DOMAIN manifest.services}
               |-> (CHOOSE i \in DOMAIN manifest.services :
                       /\ manifest.services[i].name = n
                       /\ \A j \in DOMAIN manifest.services :
                            manifest.services[j].name = n => j <= i)]

\* The names of self.services.
Declared == DOMAIN services

\* Faulty variant of restart_count: 0 is not replaced by 1.
restart_count_unnormalized(raw) ==
    IF raw = Nothing THEN 1 ELSE raw[1]

(***************************************************************************)
(* start_service, lines 265-275: the restart bound.  A null value makes    *)
(* int() raise TypeError and gives 1; 0 is replaced by 1.                  *)
(***************************************************************************)
restart_count(raw) ==
    LET parsed == IF raw = Nothing THEN 1 ELSE raw[1]
    IN  IF parsed = 0 THEN 1 ELSE parsed

\* self.services[service_name].get('restart_count'): the manifest's value.
RawRestartCount(s) == manifest.services[services[s]].restart_count

(***************************************************************************)
(* Faulty variants of _actual_restarts: the window includes its boundary   *)
(* (>= in place of >); the last row is not counted.                        *)
(***************************************************************************)
ActualRestartsVariant(s, inclusive, uncounted) ==
    IF ~finished[s].exists
    THEN [restart_rate_exceeded |-> FALSE, actual_restarts |-> 0]
    ELSE LET lines == finished[s].lines
             ts == lines[Len(lines) - MAX_RESTART_RATE + 1].timestamp
         IN  [restart_rate_exceeded |->
                 /\ Len(lines) >= MAX_RESTART_RATE
                 /\ IF inclusive
                    THEN ts + RESTART_RATE_INTERVAL >= now
                    ELSE ts + RESTART_RATE_INTERVAL > now,
              actual_restarts |->
                 IF Len(lines) > uncounted THEN Len(lines) - uncounted
                                           ELSE 0]

actual_restarts_inclusive(s) == ActualRestartsVariant(s, TRUE, 0)

actual_restarts_undercount(s) == ActualRestartsVariant(s, FALSE, 1)

(***************************************************************************)
(* _actual_restarts: <<restart_rate_exceeded, actual_restarts>>.           *)
(* lines[-_MAX_RESTART_RATE] is the row at Len - _MAX_RESTART_RATE + 1.    *)
(***************************************************************************)
actual_restarts(s) ==
    IF ~finished[s].exists
    THEN [restart_rate_exceeded |-> FALSE, actual_restarts |-> 0]
    ELSE LET lines == finished[s].lines
         IN  [restart_rate_exceeded |->
                 /\ Len(lines) >= MAX_RESTART_RATE
                 /\ lines[Len(lines) - MAX_RESTART_RATE + 1].timestamp
                        + RESTART_RATE_INTERVAL > now,
              actual_restarts |-> Len(lines)]

\* is_down: `s6-svwait -d` succeeds iff the supervisor has the service down.
is_down(s) == ~up[s]

(***************************************************************************)
(* exit_info: the exit summary built from the last row, and the row count. *)
(* Called only with at least one row (lines[-1] raises on an empty file).  *)
(***************************************************************************)
exit_info(s) ==
    LET lines == finished[s].lines
        last_line == lines[Len(lines)]
    IN  [info |-> [rc |-> last_line.rc,
                   sig |-> last_line.sig,
                   time |-> last_line.timestamp],
         count |-> Len(lines)]

\* The exit event posted for a service: type 'exit', '<service>.<rc>.<sig>'.
ExitEvent(s, info) == <<"exit", s, info.rc, info.sig>>
RunningEvent(s) == <<"running", s>>
SvcOnce(s) == <<"s6-svc -o", s>>

\* Where a run of update_exit_status ends: it returns ("return"), or the
\* process dies after appevents.post ("posted") or after the cursor write
\* ("persisted").
StopPoints == {"return", "posted", "persisted"}

(***************************************************************************)
(* Faulty variants of update_exit_status, used to show that the checked    *)
(* properties depend on it: the cursor is never written; the cursor is     *)
(* written before the event is posted; the cursor is not compared; the     *)
(* return code is written in place of the row count.                       *)
(***************************************************************************)
UpdateVariant(s, stop, compare, persist, post_first, value) ==
    LET same(outcome) == [outcome |-> outcome, events |-> <<>>,
                          reported |-> reported[s],
                          last_exit |-> last_exit[s]]
    IN  IF ~finished[s].exists THEN same("no_finished")
        ELSE IF manifest.task = "" THEN same("no_task")
        ELSE IF Len(finished[s].lines) = 0 THEN same("raise")
        ELSE LET lines == finished[s].lines
                 info == [rc |-> lines[Len(lines)].rc,
                          sig |-> lines[Len(lines)].sig,
                          time |-> lines[Len(lines)].timestamp]
                 count == Len(lines)
                 written == IF value = "rc" THEN info.rc ELSE count
             IN  IF compare /\ reported[s] = Some(count)
                 THEN same("already_reported")
                 ELSE [outcome |-> IF stop = "return" THEN "reported"
                                                     ELSE stop,
                       events |-> IF stop = "posted" /\ ~post_first
                                  THEN <<>>
                                  ELSE <<<<"exit", s, info.rc, info.sig>>>>,
                       reported |-> IF ~persist \/ (stop = "posted" /\ post_first)
                                    THEN reported[s]
                                    ELSE Some(written),
                       last_exit |-> IF stop = "return" THEN Some(info)
                                                       ELSE last_exit[s]]

update_exit_status_unpersisted(s, stop) ==
    UpdateVariant(s, stop, TRUE, FALSE, TRUE, "count")

update_exit_status_persist_first(s, stop) ==
    UpdateVariant(s, stop, TRUE, TRUE, FALSE, "count")

update_exit_status_uncompared(s, stop) ==
    UpdateVariant(s, stop, FALSE, TRUE, TRUE, "count")

update_exit_status_writes_rc(s, stop) ==
    UpdateVariant(s, stop, TRUE, TRUE, TRUE, "rc")

\* Faulty variant: one exit event for every row the cursor does not cover.
update_exit_status_per_row(s, stop) ==
    LET r == UpdateVariant(s, stop, TRUE, TRUE, TRUE, "count")
        lines == finished[s].lines
        prev == IF reported[s] = Nothing THEN 0 ELSE reported[s][1]
    IN  IF r.events = <<>> THEN r
        ELSE [r EXCEPT !.events =
                 [i \in 1..(Len(lines) - prev) |->
                     <<"exit", s, lines[prev + i].rc, lines[prev + i].sig>>]]

(***************************************************************************)
(* update_exit_status(service_name): what one run does, as a record        *)
(*   outcome   - which return (or raise, or crash point) ended the run     *)
(*   events    - what it posted to appevents                               *)
(*   reported  - <svc_dir>/reported after the run                          *)
(*   last_exit - the cached last_exit after the run                        *)
(* The cursor write of lines 390-391 is one step: the file holds the old   *)
(* value or the new one.                                                   *)
(***************************************************************************)
update_exit_status(s, stop) ==
    LET same(outcome) == [outcome |-> outcome, events |-> <<>>,
                          reported |-> reported[s],
                          last_exit |-> last_exit[s]]
    IN  IF ~finished[s].exists THEN same("no_finished")
        ELSE IF manifest.task = "" THEN same("no_task")
        ELSE IF Len(finished[s].lines) = 0 THEN same("raise")
        ELSE LET ei == exit_info(s)
                 prev_count == reported[s]
             IN  IF prev_count = Some(ei.count) THEN same("already_reported")
                 ELSE [outcome |-> IF stop = "return" THEN "reported"
                                                     ELSE stop,
                       events |-> <<ExitEvent(s, ei.info)>>,
                       reported |-> IF stop = "posted" THEN reported[s]
                                                      ELSE Some(ei.count),
                       last_exit |-> IF stop = "return" THEN Some(ei.info)
                                                       ELSE last_exit[s]]

(***************************************************************************)
(* Faulty variants of start_service: the restart bound is compared with    *)
(* >= in place of >.                                                       *)
(***************************************************************************)
start_service_with_off_by_one(s, raw) ==
    LET bound == restart_count(raw)
        ar == actual_restarts(s)
        flush == update_exit_status(s, "return")
        allowed == bound = -1 \/ bound >= ar.actual_restarts
        invoke == is_down(s) /\ downFile[s]
    IN  IF flush.outcome = "raise"
        THEN [result |-> "raise", effects |-> flush.events, flush |-> flush,
              up |-> up[s], started |-> FALSE]
        ELSE IF ar.restart_rate_exceeded \/ ~allowed
        THEN [result |-> "False", effects |-> flush.events, flush |-> flush,
              up |-> up[s], started |-> FALSE]
        ELSE [result |-> "True",
              effects |-> flush.events
                          \o (IF invoke THEN <<SvcOnce(s)>> ELSE <<>>)
                          \o (IF is_down(s) THEN <<RunningEvent(s)>>
                                            ELSE <<>>),
              flush |-> flush,
              up |-> TRUE,
              started |-> invoke]

\* Faulty variant of start_service: the exit report is flushed only when
\* the service is going to be started.
start_service_with_late_flush(s, raw) ==
    LET bound == restart_count(raw)
        ar == actual_restarts(s)
        flush == update_exit_status(s, "return")
        none == [outcome |-> "skipped", events |-> <<>>,
                 reported |-> reported[s], last_exit |-> last_exit[s]]
        allowed == bound = -1 \/ bound > ar.actual_restarts
        invoke == is_down(s) /\ downFile[s]
    IN  IF ar.restart_rate_exceeded \/ ~allowed
        THEN [result |-> "False", effects |-> <<>>, flush |-> none,
              up |-> up[s], started |-> FALSE]
        ELSE IF flush.outcome = "raise"
        THEN [result |-> "raise", effects |-> flush.events, flush |-> flush,
              up |-> up[s], started |-> FALSE]
        ELSE [result |-> "True",
              effects |-> flush.events
                          \o (IF invoke THEN <<SvcOnce(s)>> ELSE <<>>)
                          \o (IF is_down(s) THEN <<RunningEvent(s)>>
                                            ELSE <<>>),
              flush |-> flush,
              up |-> TRUE,
              started |-> invoke]

\* Faulty variant of start_service: the service is not tested for being
\* down before it is started.
start_service_with_unobserved(s, raw) ==
    LET bound == restart_count(raw)
        ar == actual_restarts(s)
        flush == update_exit_status(s, "return")
        allowed == bound = -1 \/ bound > ar.actual_restarts
        invoke == downFile[s]
    IN  IF flush.outcome = "raise"
        THEN [result |-> "raise", effects |-> flush.events, flush |-> flush,
              up |-> up[s], started |-> FALSE]
        ELSE IF ar.restart_rate_exceeded \/ ~allowed
        THEN [result |-> "False", effects |-> flush.events, flush |-> flush,
              up |-> up[s], started |-> FALSE]
        ELSE [result |-> "True",
              effects |-> flush.events
                          \o (IF invoke THEN <<SvcOnce(s)>> ELSE <<>>)
                          \o <<RunningEvent(s)>>,
              flush |-> flush,
              up |-> TRUE,
              started |-> invoke]

(***************************************************************************)
(* start_service(service_name): what one run does, as a record             *)
(*   result  - "True", "False" or "raise"                                  *)
(*   effects - the events posted and supervisor actions invoked, in order  *)
(*   flush   - the run of update_exit_status inside it                     *)
(*   up      - whether the service is up when the call ends                *)
(*   started - whether it invoked `s6-svc -o`                              *)
(* start_service_with(s, raw) is the call for a manifest whose             *)
(* restart_count for s is raw.                                             *)
(***************************************************************************)
start_service_with(s, raw) ==
    LET bound == restart_count(raw)
        ar == actual_restarts(s)
        flush == update_exit_status(s, "return")
        allowed == bound = -1 \/ bound > ar.actual_restarts
        invoke == is_down(s) /\ downFile[s]
    IN  IF flush.outcome = "raise"
        THEN [result |-> "raise", effects |-> flush.events, flush |-> flush,
              up |-> up[s], started |-> FALSE]
        ELSE IF ar.restart_rate_exceeded
        THEN [result |-> "False", effects |-> flush.events, flush |-> flush,
              up |-> up[s], started |-> FALSE]
        ELSE IF allowed
        THEN [result |-> "True",
              effects |-> flush.events
                          \o (IF invoke THEN <<SvcOnce(s)>> ELSE <<>>)
                          \o (IF is_down(s) THEN <<RunningEvent(s)>>
                                            ELSE <<>>),
              flush |-> flush,
              up |-> TRUE,
              started |-> invoke]
        ELSE [result |-> "False", effects |-> flush.events, flush |-> flush,
              up |-> up[s], started |-> FALSE]

start_service(s) == start_service_with(s, RawRestartCount(s))

(***************************************************************************)
(* EndpointPresence: strings, paths and manifests.                         *)
(* A string is the sequence of its characters, so that '+', str() and      *)
(* split(':') are computed as Python computes them.                        *)
(***************************************************************************)
HostA == <<"a">>
HostB == <<"b">>
Hosts == {HostA, HostB}

\* The advertised ports (real_port) in use on a host.
Ports == {5000, 5001}

Digit(d) == <<"0", "1", "2", "3", "4", "5", "6", "7", "8", "9">>[d + 1]

\* str(n) for a natural number n.
RECURSIVE str(_)
str(n) == IF n < 10 THEN <<Digit(n)>>
          ELSE str(n \div 10) \o <<Digit(n % 10)>>

\* data.split(':')[0]: the text before the first ':' (all of it if none).
SplitFirst(data) ==
    IF \E i \in 1..Len(data) : data[i] = ":"
    THEN SubSeq(data, 1,
                (CHOOSE i \in 1..Len(data) :
                    /\ data[i] = ":"
                    /\ \A j \in 1..(i - 1) : data[j] /= ":") - 1)
    ELSE data

\* self.hostname + ':' + str(ep_port)
HostPort(host, port) == host \o <<":">> \o str(port)

\* self.appname
appname == <<"x">>

\* z.path.running(app), z.path.endpoint(app, ep_name)
AppRunningPath(app) == <<"running", app>>
AppEndpointPath(app, ep_name) == <<"endpoints", app, ep_name>>

\* z.path.running(self.appname), z.path.endpoint(self.appname, ep_name)
RunningPath == AppRunningPath(appname)
EndpointPath(ep_name) == AppEndpointPath(appname, ep_name)

Endpoint(name, port, real_port) ==
    [name |-> name, port |-> port, real_port |-> real_port]

\* endpoint.get('name', str(port))
EpName(endpoint) ==
    IF endpoint.name = Nothing THEN str(endpoint.port) ELSE endpoint.name[1]

Http == <<"h", "t", "t", "p">>
Tcp == <<"t", "c", "p">>

\* The endpoint lists of the manifests: one named endpoint; an unnamed one
\* (named by its port) and a named one; one with an empty name and a named
\* one.
EndpointLists ==
    { <<Endpoint(Some(Http), 80, 5000)>>,
      <<Endpoint(Nothing, 80, 5000), Endpoint(Some(Tcp), 22, 5001)>>,
      <<Endpoint(Some(<<>>), 80, 5000), Endpoint(Some(Tcp), 22, 5001)>> }

EpNames == {EpName(l[i]) : i \in 1..2, l \in {x \in EndpointLists : Len(x) = 2}}
           \cup {EpName(l[1]) : l \in EndpointLists}

Paths == {RunningPath} \cup {EndpointPath(n) : n \in EpNames}

\* The paths of the records of this manifest.
ManifestPaths ==
    {RunningPath} \cup
    {EndpointPath(EpName(manifest.endpoints[i])) : i \in DOMAIN manifest.endpoints}

\* What a session may store at a path: a host name at the running path, a
\* host:port at an endpoint path.
ValuesAt(path) ==
    IF path = RunningPath THEN Hosts
    ELSE {HostPort(h, p) : h \in Hosts, p \in Ports}

Get(path, data) == <<"get", path, data>>
Delete(path) == <<"delete", path, Nothing>>
Create(path, data) == <<"create", path, Some(data)>>

\* Attempts of _create_ephemeral_with_retry.
CREATE_ATTEMPTS == 5

\* zkutils.create(zkclient, path, data, ephemeral=True) raises
\* NodeExistsError when a node is at the path, whichever session made it.
node_exists(store, path) == store[path] /= Nothing

(***************************************************************************)
(* _create_ephemeral_with_retry on the store `store`: up to 5 attempts,    *)
(* each after the first following a sleep.  free_at is the first attempt   *)
(* at which no node is at the path (the session of a stale node may end    *)
(* while this sleeps); above 5, the node outlives the attempts.            *)
(***************************************************************************)
create_ephemeral_with_retry(store, path, data, free_at) ==
    LET first_free == IF ~node_exists(store, path) THEN 1 ELSE free_at
        attempts == IF first_free <= CREATE_ATTEMPTS THEN first_free
                                                     ELSE CREATE_ATTEMPTS
    IN  [result |-> IF first_free <= CREATE_ATTEMPTS THEN "None" ELSE "raise",
         effects |-> [i \in 1..attempts |-> Create(path, data)],
         store |-> IF first_free <= CREATE_ATTEMPTS
                   THEN [store EXCEPT ![path] = Some(data)]
                   ELSE store]

\* register_running
register_running(free_at) ==
    create_ephemeral_with_retry(zk, RunningPath, hostname, free_at)

\* register_endpoints from the i-th endpoint on; an exception ends the loop.
RECURSIVE register_endpoints_from(_, _, _, _)
register_endpoints_from(i, store, effects, free_at) ==
    IF i > Len(manifest.endpoints)
    THEN [result |-> "None", effects |-> effects, store |-> store]
    ELSE LET endpoint == manifest.endpoints[i]
             ep_name == EpName(endpoint)
             hostport == HostPort(hostname, endpoint.real_port)
             r == create_ephemeral_with_retry(store, EndpointPath(ep_name),
                                              hostport, free_at[i])
         IN  IF r.result = "raise"
             THEN [result |-> "raise", effects |-> effects \o r.effects,
                   store |-> r.store]
             ELSE register_endpoints_from(i + 1, r.store,
                                          effects \o r.effects, free_at)

register_endpoints(free_at) == register_endpoints_from(1, zk, <<>>, free_at)

\* Faulty variant of unregister_running: the stored value is not compared.
unregister_running_unchecked ==
    IF zk[RunningPath] = Nothing
    THEN [result |-> "None", effects |-> <<Get(RunningPath, Nothing)>>,
          store |-> zk]
    ELSE [result |-> "None",
          effects |-> <<Get(RunningPath, zk[RunningPath]),
                        Delete(RunningPath)>>,
          store |-> [zk EXCEPT ![RunningPath] = Nothing]]

\* Faulty variant of the ownership test of unregister_running: no test.
owns_running_unchecked(data) == TRUE

\* unregister_running, line 83: data == self.hostname
owns_running(data) == data = hostname

(***************************************************************************)
(* unregister_running: get, compare with the hostname, delete; NoNodeError *)
(* from get is caught.                                                     *)
(***************************************************************************)
unregister_running ==
    LET path == RunningPath
        data == zk[path]
    IN  IF data = Nothing
        THEN [result |-> "None", effects |-> <<Get(path, Nothing)>>,
              store |-> zk]
        ELSE IF owns_running(data[1])
        THEN [result |-> "None",
              effects |-> <<Get(path, data), Delete(path)>>,
              store |-> [zk EXCEPT ![path] = Nothing]]
        ELSE [result |-> "None", effects |-> <<Get(path, data)>>,
              store |-> zk]

\* Faulty variant of the ownership test of unregister_endpoints: no test.
owns_endpoint_unchecked(data) == TRUE

\* unregister_endpoints, line 124: data.split(':')[0] == self.hostname
owns_endpoint(data) == SplitFirst(data) = hostname

(***************************************************************************)
(* unregister_endpoints from the i-th endpoint on: an empty endpoint name  *)
(* ends the call; otherwise get, compare the host part, delete.            *)
(***************************************************************************)
RECURSIVE unregister_endpoints_from(_, _, _)
unregister_endpoints_from(i, store, effects) ==
    IF i > Len(manifest.endpoints)
    THEN [result |-> "None", effects |-> effects, store |-> store]
    ELSE LET ep_name == EpName(manifest.endpoints[i])
             path == EndpointPath(ep_name)
             data == store[path]
         IN  IF ep_name = <<>>
             THEN [result |-> "None", effects |-> effects, store |-> store]
             ELSE IF data = Nothing
             THEN unregister_endpoints_from(
                      i + 1, store, Append(effects, Get(path, Nothing)))
             ELSE IF owns_endpoint(data[1])
             THEN unregister_endpoints_from(
                      i + 1, [store EXCEPT ![path] = Nothing],
                      effects \o <<Get(path, data), Delete(path)>>)
             ELSE unregister_endpoints_from(
                      i + 1, store, Append(effects, Get(path, data)))

unregister_endpoints == unregister_endpoints_from(1, zk, <<>>)

(***************************************************************************)
(* wait_for_exit, lines 323-325: update_exit_status for every service in   *)
(* iteration order; an exception ends the loop.  flushed(i) holds when the *)
(* i-th service of the order is reached.                                   *)
(***************************************************************************)
flushed(i) ==
    \A j \in 1..(i - 1) :
        update_exit_status(iter_order[j], "return").outcome /= "raise"

RECURSIVE flush_events(_)
flush_events(i) ==
    IF i > Len(iter_order) \/ ~flushed(i) THEN <<>>
    ELSE update_exit_status(iter_order[i], "return").events
         \o flush_events(i + 1)

wait_for_exit ==
    [result |-> IF \E i \in 1..Len(iter_order) :
                      /\ flushed(i)
                      /\ update_exit_status(iter_order[i], "return").outcome
                            = "raise"
                THEN "raise" ELSE "None",
     effects |-> flush_events(1),
     done |-> {iter_order[i] : i \in {j \in 1..Len(iter_order) : flushed(j)}}]

(***************************************************************************)
(* History bookkeeping.                                                    *)
(***************************************************************************)
RowCap == MaxLogLen + MaxRows

RowCount(s) == Len(finished[s].lines)

\* posts after service s posted the events `events` for its current log.
Posted(p, s, events) ==
    IF events = <<>> THEN p
    ELSE [p EXCEPT ![s][RowCount(s)] = @ + Len(events)]

RECURSIVE SumTo(_, _)
SumTo(f, n) == IF n = 0 THEN 0 ELSE f[n] + SumTo(f, n - 1)

\* The record of an operation: what it was, how it ended, what it did, and
\* (after) the operation before it.
Op(op, s, result, effects, outcome) ==
    [op |-> op, svc |-> s, result |-> result, effects |-> effects,
     outcome |-> outcome,
     after |-> [op |-> lastOp.op, svc |-> lastOp.svc,
                outcome |-> lastOp.outcome, effects |-> lastOp.effects]]

EnvOp(op, s) == Op(op, s, "None", <<>>, "")

(***************************************************************************)
(* Operations of ServicePresence.                                          *)
(***************************************************************************)
UpdateExitStatus(s) ==
    /\ s \in Declared
    /\ LET r == update_exit_status(s, "return")
       IN  /\ reported' = [reported EXCEPT ![s] = r.reported]
           /\ last_exit' = [last_exit EXCEPT ![s] = r.last_exit]
           /\ posts' = Posted(posts, s, r.events)
           /\ lastOp' = Op("update_exit_status", s,
                           IF r.outcome = "raise" THEN "raise" ELSE "None",
                           r.events, r.outcome)
    /\ UNCHANGED presVars
    /\ UNCHANGED <<exitinfo, refused, manifest, finished, up, downFile, now, iter_order,
                   postCrashes, starts>>

StartService(s) ==
    /\ s \in Declared
    /\ LET r == start_service(s)
       IN  /\ reported' = [reported EXCEPT ![s] = r.flush.reported]
           /\ last_exit' = [last_exit EXCEPT ![s] = r.flush.last_exit]
           /\ up' = [up EXCEPT ![s] = r.up]
           /\ starts' = [starts EXCEPT ![s] = IF r.started THEN @ + 1 ELSE @]
           /\ posts' = Posted(posts, s, r.flush.events)
           /\ lastOp' = Op("start_service", s, r.result, r.effects,
                           r.flush.outcome)
           /\ refused' = [refused EXCEPT ![s] = @ \/ r.result = "False"]
    /\ UNCHANGED presVars
    /\ UNCHANGED <<exitinfo, manifest, finished, downFile, now, iter_order,
                   postCrashes>>

\* wait_for_exit returns from `s6-svwait -o -d` once a watched directory is
\* down: a service of the manifest, or container_svc_dir (cdir_down).
WaitForExit(cdir_down) ==
    /\ cdir_down \/ \E s \in Declared : is_down(s)
    /\ LET r == wait_for_exit
       IN  /\ reported' = [s \in ServiceNames |->
                             IF s \in r.done
                             THEN update_exit_status(s, "return").reported
                             ELSE reported[s]]
           /\ last_exit' = [s \in ServiceNames |->
                              IF s \in r.done
                              THEN update_exit_status(s, "return").last_exit
                              ELSE last_exit[s]]
           /\ posts' = [s \in ServiceNames |->
                          IF s \in r.done
                          THEN Posted(posts, s,
                                 update_exit_status(s, "return").events)[s]
                          ELSE posts[s]]
           /\ lastOp' = Op("wait_for_exit", "", r.result, r.effects, "")
    /\ UNCHANGED presVars
    /\ UNCHANGED <<exitinfo, refused, manifest, finished, up, downFile, now, iter_order,
                   postCrashes, starts>>

(***************************************************************************)
(* The agent process dies inside update_exit_status (called directly, from *)
(* start_service or from wait_for_exit) after the event is posted, or      *)
(* after the cursor is written, and is started again: the files stay, the  *)
(* memory of the process (last_exit) is lost.                              *)
(***************************************************************************)
CrashInUpdateExitStatus(s, stop) ==
    /\ s \in Declared
    /\ stop \in StopPoints \ {"return"}
    /\ SumTo(postCrashes[s], RowCap) < MaxCrashes
    /\ LET r == update_exit_status(s, stop)
       IN  /\ r.outcome = stop
           /\ reported' = [reported EXCEPT ![s] = r.reported]
           /\ posts' = Posted(posts, s, r.events)
           /\ postCrashes' = IF stop = "posted"
                             THEN [postCrashes EXCEPT ![s][RowCount(s)] = @ + 1]
                             ELSE postCrashes
           /\ lastOp' = Op("crash", s, stop, r.events, r.outcome)
    /\ last_exit' = [x \in ServiceNames |-> Nothing]
    /\ UNCHANGED presVars
    /\ UNCHANGED <<exitinfo, refused, manifest, finished, up, downFile, now, iter_order, starts>>

\* The agent process is restarted between two operations.
AgentRestart ==
    /\ \E s \in ServiceNames : last_exit[s] /= Nothing
    /\ last_exit' = [x \in ServiceNames |-> Nothing]
    /\ lastOp' = EnvOp("restart", "")
    /\ UNCHANGED presVars
    /\ UNCHANGED <<exitinfo, refused, manifest, finished, reported, up, downFile, now,
                   iter_order, posts, postCrashes, starts>>

(***************************************************************************)
(* The environment: the supervisor and the clock.                          *)
(***************************************************************************)
\* A running service exits: the supervisor appends "now rc signal" to the
\* finish log and has the service down.
ServiceExit(s, code) ==
    /\ s \in Declared
    /\ up[s]
    /\ RowCount(s) < MaxRows
    /\ finished' = [finished EXCEPT ![s] =
                      Finished(Append(@.lines, Row(now, code[1], code[2])))]
    /\ up' = [up EXCEPT ![s] = FALSE]
    /\ lastOp' = EnvOp("exit", s)
    /\ UNCHANGED presVars
    /\ UNCHANGED <<exitinfo, refused, manifest, reported, downFile, last_exit, now, iter_order,
                   posts, postCrashes, starts>>

\* Without a down file the supervisor brings a service up by itself.
SupervisorUp(s) ==
    /\ s \in Declared
    /\ ~up[s]
    /\ ~downFile[s]
    /\ up' = [up EXCEPT ![s] = TRUE]
    /\ lastOp' = EnvOp("up", s)
    /\ UNCHANGED presVars
    /\ UNCHANGED <<exitinfo, refused, manifest, finished, reported, downFile, last_exit, now,
                   iter_order, posts, postCrashes, starts>>

StartNow == 2 * TickStep

Tick ==
    /\ now < StartNow + MaxTicks * TickStep
    /\ now' = now + TickStep
    /\ lastOp' = EnvOp("tick", "")
    /\ UNCHANGED presVars
    /\ UNCHANGED <<exitinfo, refused, manifest, finished, reported, up, downFile, last_exit,
                   iter_order, posts, postCrashes, starts>>

(***************************************************************************)
(* The lifecycle specification: one service, started with no finish log,   *)
(* driven by the agent's operations, the supervisor, crashes and restarts. *)
(***************************************************************************)
ZeroHist == [s \in ServiceNames |-> [n \in 1..RowCap |-> 0]]

Manifest(task, svcs) ==
    [task |-> task, services |-> svcs, endpoints |-> <<>>]
Service(name, rc) == [name |-> name, restart_count |-> rc]

\* No unregistration of this process is under way.
Idle == [op |-> "idle", i |-> 0, data |-> Nothing]

\* No server, placement or scheduled manifest: the cell is not looked at.
NoCell == [servers |-> {}, placement |-> <<>>, scheduled |-> <<>>]

\* No presence record, for the specifications of the service lifecycle.
InitNoPresence ==
    /\ hostname = HostA
    /\ zk = [p \in Paths |-> Nothing]
    /\ foreign = {}
    /\ pc = Idle
    /\ cell = NoCell

InitHist ==
    /\ posts = ZeroHist
    /\ postCrashes = ZeroHist
    /\ starts = [s \in ServiceNames |-> 0]
    /\ refused = [s \in ServiceNames |-> FALSE]
    /\ lastOp = [op |-> "init", svc |-> "", result |-> "None",
                 effects |-> <<>>, outcome |-> "",
                 after |-> [op |-> "", svc |-> "", outcome |-> "",
                            effects |-> <<>>]]

Init ==
    /\ \E task \in {"", "t1"}, rc \in {Some(-1), Some(1), Some(2)} :
          manifest = Manifest(task, <<Service("web", rc)>>)
    /\ iter_order = <<"web">>
    /\ finished = [s \in ServiceNames |-> NoFinished]
    /\ reported = [s \in ServiceNames |-> Nothing]
    /\ up = [s \in ServiceNames |-> FALSE]
    /\ \E d \in BOOLEAN : downFile = [s \in ServiceNames |-> d /\ s = "web"]
    /\ last_exit = [s \in ServiceNames |-> Nothing]
    /\ now = StartNow
    /\ exitinfo = <<>>
    /\ InitNoPresence
    /\ InitHist

Next ==
    \/ \E s \in ServiceNames : UpdateExitStatus(s)
    \/ \E s \in ServiceNames : StartService(s)
    \/ \E c \in BOOLEAN : WaitForExit(c)
    \/ \E s \in ServiceNames, stop \in StopPoints :
          CrashInUpdateExitStatus(s, stop)
    \/ AgentRestart
    \/ \E s \in ServiceNames, code \in ExitCodes : ServiceExit(s, code)
    \/ \E s \in ServiceNames : SupervisorUp(s)

Spec == Init /\ [][Next]_vars

(***************************************************************************)
(* The start specification: start_service on a service whose finish log,   *)
(* cursor, supervisor state and restart bound are whatever an earlier run  *)
(* of the agent left, with the clock advancing.  The supervisor's finish   *)
(* hook appends one row per exit, so a finish log that exists has a row.   *)
(***************************************************************************)
\* restart_count values of a manifest; Nothing is a null value.
RestartCounts == {Nothing} \cup {Some(n) : n \in {-1, 0, 1, 2, 3, 6}}

\* Timestamps of the rows found at start.
InitTimes == {0, TickStep}

InitLogs ==
    {rows \in UNION {[1..n -> {Row(ts, 0, 0) : ts \in InitTimes}] :
                        n \in 1..MaxLogLen} :
        \A i \in 1..(Len(rows) - 1) : rows[i].timestamp <= rows[i + 1].timestamp}

InitStart ==
    /\ \E task \in {"", "t1"}, rc \in RestartCounts :
          manifest = Manifest(task, <<Service("web", rc)>>)
    /\ iter_order = <<"web">>
    /\ \E f \in {NoFinished} \cup {Finished(rows) : rows \in InitLogs} :
          /\ finished = [s \in ServiceNames |->
                           IF s = "web" THEN f ELSE NoFinished]
          /\ \E r \in {Nothing, Some(Len(f.lines))} :
                reported = [s \in ServiceNames |->
                              IF s = "web" THEN r ELSE Nothing]
    /\ \E u \in BOOLEAN : up = [s \in ServiceNames |-> u /\ s = "web"]
    /\ \E d \in BOOLEAN : downFile = [s \in ServiceNames |-> d /\ s = "web"]
    /\ last_exit = [s \in ServiceNames |-> Nothing]
    /\ now = StartNow
    /\ exitinfo = <<>>
    /\ InitNoPresence
    /\ InitHist

NextStart ==
    \/ \E s \in ServiceNames : StartService(s)
    \/ \E s \in ServiceNames, code \in ExitCodes : ServiceExit(s, code)
    \/ Tick

SpecStart == InitStart /\ [][NextStart]_vars

(***************************************************************************)
(* Operations of EndpointPresence, and the other sessions of Zookeeper.    *)
(***************************************************************************)
\* The attempt at which a stale node is gone: the 2nd to the 5th, or none.
FreeAt == 2..(CREATE_ATTEMPTS + 1)

RegisterRunning(free_at) ==
    /\ zk' = register_running(free_at).store
    /\ lastOp' = Op("register_running", "", register_running(free_at).result,
                    register_running(free_at).effects, "")
    /\ UNCHANGED <<lifeVars, hostname, foreign, pc, cell, posts, postCrashes,
                   starts, refused>>

RegisterEndpoints(free_at) ==
    /\ zk' = register_endpoints(free_at).store
    /\ lastOp' = Op("register_endpoints", "",
                    register_endpoints(free_at).result,
                    register_endpoints(free_at).effects, "")
    /\ UNCHANGED <<lifeVars, hostname, foreign, pc, cell, posts, postCrashes,
                   starts, refused>>

UnregisterRunning ==
    /\ zk' = unregister_running.store
    /\ lastOp' = Op("unregister_running", "", unregister_running.result,
                    unregister_running.effects, "")
    /\ UNCHANGED <<lifeVars, hostname, foreign, pc, cell, posts, postCrashes,
                   starts, refused>>

UnregisterEndpoints ==
    /\ zk' = unregister_endpoints.store
    /\ lastOp' = Op("unregister_endpoints", "", unregister_endpoints.result,
                    unregister_endpoints.effects, "")
    /\ UNCHANGED <<lifeVars, hostname, foreign, pc, cell, posts, postCrashes,
                   starts, refused>>

\* Another session (another host, or an earlier or later instance on this
\* host) creates a record at a free path.
OtherSessionCreate(path, data) ==
    /\ path \in ManifestPaths
    /\ data \in ValuesAt(path)
    /\ zk[path] = Nothing
    /\ zk' = [zk EXCEPT ![path] = Some(data)]
    /\ lastOp' = EnvOp("create", "")
    /\ UNCHANGED <<lifeVars, hostname, foreign, pc, cell, posts, postCrashes,
                   starts, refused>>

\* The session that owns an ephemeral record ends: the record is removed.
SessionExpire(path) ==
    /\ zk[path] /= Nothing
    /\ zk' = [zk EXCEPT ![path] = Nothing]
    /\ lastOp' = EnvOp("expire", "")
    /\ UNCHANGED <<lifeVars, hostname, foreign, pc, cell, posts, postCrashes,
                   starts, refused>>

InitPresence ==
    /\ \E eps \in EndpointLists :
          manifest = [task |-> "t1", services |-> <<>>, endpoints |-> eps]
    /\ iter_order = <<>>
    /\ finished = [s \in ServiceNames |-> NoFinished]
    /\ reported = [s \in ServiceNames |-> Nothing]
    /\ up = [s \in ServiceNames |-> FALSE]
    /\ downFile = [s \in ServiceNames |-> FALSE]
    /\ last_exit = [s \in ServiceNames |-> Nothing]
    /\ now = StartNow
    /\ exitinfo = <<>>
    /\ InitNoPresence
    /\ InitHist

NextPresence ==
    \/ \E f \in FreeAt : RegisterRunning(f)
    \/ \E f \in [DOMAIN manifest.endpoints -> FreeAt] : RegisterEndpoints(f)
    \/ UnregisterRunning
    \/ UnregisterEndpoints
    \/ \E path \in Paths : \E data \in ValuesAt(path) :
          OtherSessionCreate(path, data)
    \/ \E path \in Paths : SessionExpire(path)

SpecPresence == InitPresence /\ [][NextPresence]_vars

(***************************************************************************)
(* Properties of exit reporting (specification Spec).                      *)
(***************************************************************************)
\* The operations that run update_exit_status for service s.
Flushes(op, s) ==
    \/ op.op \in {"update_exit_status", "start_service"} /\ op.svc = s
    \/ op.op = "wait_for_exit" /\ s \in Declared

\* The exit event of the last row of the finish log of s.
LastRowEvent(s) ==
    LET lines == finished[s].lines
    IN  <<"exit", s, lines[Len(lines)].rc, lines[Len(lines)].sig>>

\* Two update_exit_status calls for s in a row, nothing in between, for a
\* manifest with a task id and a finish log with a row.
TwoCalls(s) ==
    /\ lastOp.op = "update_exit_status" /\ lastOp.svc = s
    /\ lastOp.after.op = "update_exit_status" /\ lastOp.after.svc = s
    /\ manifest.task /= ""
    /\ RowCount(s) > 0

\* After two consecutive update_exit_status calls the second has posted
\* nothing, the cursor holds the row count, the two calls have posted at most
\* one event (the event of the last row, by the first call), and one exit
\* event stands for that finish-log state: the one the first call posted,
\* or, if the state was already reported when the first call ran, the one
\* posted then (besides the repeats that earlier crashes between post and
\* cursor write caused).
C1_SecondCallNoOp ==
    \A s \in ServiceNames :
        TwoCalls(s) =>
            /\ lastOp.effects = <<>>
            /\ lastOp.outcome = "already_reported"
            /\ reported[s] = Some(RowCount(s))
            /\ Len(lastOp.after.effects) + Len(lastOp.effects) <= 1
            /\ (lastOp.after.outcome = "reported"
                    => lastOp.after.effects = <<LastRowEvent(s)>>)
            /\ posts[s][RowCount(s)] = 1 + postCrashes[s][RowCount(s)]

\* C1: of two consecutive update_exit_status calls for a service with a task
\* id and a non-empty finish log, with no row appended in between, the
\* second posts nothing and does not change the cursor; together they post
\* one exit event for the finish-log state and leave one cursor value, the
\* row count.
C1_Idempotence ==
    /\ []C1_SecondCallNoOp
    /\ [][\A s \in ServiceNames :
            (/\ lastOp.op = "update_exit_status" /\ lastOp.svc = s
             /\ lastOp'.op = "update_exit_status" /\ lastOp'.svc = s
             /\ manifest.task /= "" /\ RowCount(s) > 0)
            => reported' = reported /\ posts' = posts]_vars

\* C1 witness: a second call in a row, after a first call that posted the
\* event of a one-row log with no cursor before it.
C1_Witness ==
    /\ TwoCalls("web")
    /\ lastOp.after.outcome = "reported"
    /\ RowCount("web") = 1
    /\ posts["web"][1] = 1

C3_AtMostOnce ==
    \A s \in ServiceNames : \A n \in 1..RowCap : posts[s][n] <= 1

\* C3 as amended: a finish-log state gives rise to one exit event, and to
\* one more for each crash of the agent between posting the event and
\* writing the cursor in that state.
C3_AtMostOncePerCrash ==
    \A s \in ServiceNames : \A n \in 1..RowCap :
        posts[s][n] <= 1 + postCrashes[s][n]

\* C3 witness: a state posted twice, after one crash between post and cursor
\* write, and reported again by a complete run.
C3_Witness ==
    /\ posts["web"][1] = 2 /\ postCrashes["web"][1] = 1
    /\ reported["web"] = Some(1)

\* C4: the persisted cursor of a service never decreases, and once written
\* it stays written.
C4_CursorMonotonic ==
    [][\A s \in ServiceNames :
          reported[s] /= Nothing =>
              /\ reported'[s] /= Nothing
              /\ reported'[s][1] >= reported[s][1]]_vars

\* C4 witness: the cursor has advanced from 1 to 2.
C4_Witness ==
    /\ reported["web"] = Some(2)
    /\ posts["web"][1] >= 1 /\ posts["web"][2] >= 1

\* The restart bound of s, read off the manifest: null and 0 count as 1.
Bound(s) ==
    LET raw == manifest.services[services[s]].restart_count
    IN  IF raw = Nothing \/ raw = Some(0) THEN 1 ELSE raw[1]

\* C5: for a positive restart bound N, start_service invokes `s6-svc -o`
\* only while the finish log holds fewer than N rows, and invokes it at most
\* N times in all.
C5_RetriesWithinPolicy ==
    /\ [](\A s \in Declared : Bound(s) > 0 => starts[s] <= Bound(s))
    /\ [][\A s \in Declared :
            (Bound(s) > 0 /\ starts'[s] > starts[s])
                => RowCount(s) < Bound(s)]_vars

\* C5 witness: bound 2, two starts, two exits, and a refused third start.
C5_Witness ==
    /\ Bound("web") = 2 /\ starts["web"] = 2 /\ RowCount("web") = 2
    /\ lastOp.op = "start_service" /\ lastOp.result = "False"

(***************************************************************************)
(* Properties of start_service (specification SpecStart).                  *)
(***************************************************************************)
\* start_service(s) is the last operation.
Started(s) == lastOp.op = "start_service" /\ lastOp.svc = s

\* Seconds since the 5th-from-last row of the finish log of s.
AgeOfFifthFromLast(s) ==
    now - finished[s].lines[RowCount(s) - 4].timestamp

\* The rate limit as specified: at least 5 rows, and the 5th-from-last row
\* less than 60 seconds old.
RateExceeded(s) == RowCount(s) >= 5 /\ AgeOfFifthFromLast(s) < 60

\* The restart bound lets a service with RowCount(s) rows start.
BoundAllows(s) == Bound(s) = -1 \/ Bound(s) > RowCount(s)

Invoked(effects, s) ==
    \E i \in 1..Len(effects) : effects[i] = <<"s6-svc -o", s>>

\* C6: with at least 5 rows and the 5th-from-last row less than 60 seconds
\* old, start_service returns failure and invokes no `s6-svc -o`, whatever
\* the restart bound; with that row 60 seconds old or older the rate limit
\* does not refuse: the call succeeds iff the restart bound allows.
C6_RateLimit ==
    \A s \in ServiceNames :
        (Started(s) /\ RowCount(s) >= 5) =>
            /\ AgeOfFifthFromLast(s) < 60 =>
                  /\ lastOp.result = "False"
                  /\ ~Invoked(lastOp.effects, s)
            /\ AgeOfFifthFromLast(s) >= 60 =>
                  (lastOp.result = "True" <=> BoundAllows(s))

\* C6 witness: an unlimited service, down, with 5 rows of which the
\* 5th-from-last is 30 seconds old, has been refused.
C6_Witness ==
    /\ Started("web") /\ lastOp.result = "False"
    /\ Bound("web") = -1 /\ RowCount("web") = 5
    /\ AgeOfFifthFromLast("web") = 30
    /\ ~up["web"] /\ downFile["web"]

C8_BoundSemantics ==
    \A s \in Declared :
        /\ (Started(s) /\ RawRestartCount(s) = Some(-1) /\ ~RateExceeded(s))
              => lastOp.result = "True"
        /\ start_service_with(s, Some(0)) = start_service_with(s, Some(1))
        /\ (Started(s) /\ RawRestartCount(s) = Some(0))
              => lastOp.result =
                    IF RowCount(s) = 0 THEN "True" ELSE "False"

\* C8 witness: a service with restart bound 0 and no finish log was started
\* (`s6-svc -o` invoked), as one with bound 1 is.
C8_Witness ==
    /\ Started("web") /\ lastOp.result = "True"
    /\ RawRestartCount("web") = Some(0)
    /\ RowCount("web") = 0
    /\ Invoked(lastOp.effects, "web")

(***************************************************************************)
(* Properties of unregistration (specification SpecPresence).              *)
(***************************************************************************)
Has(effects, e) == \E i \in 1..Len(effects) : effects[i] = e

\* The value that a get of `path` read, in the effects of an operation.
Read(effects, path) ==
    LET i == CHOOSE i \in 1..Len(effects) :
                 effects[i][1] = "get" /\ effects[i][2] = path
    IN  effects[i][3]

\* C9: unregister_running does not raise; it deletes the running record
\* exactly when the value it read is its hostname: a record with another
\* value is left as it is, a missing record is no error.
C9_UnregisterRunning ==
    lastOp.op = "unregister_running" =>
        LET data == Read(lastOp.effects, RunningPath)
        IN  /\ lastOp.result = "None"
            /\ Has(lastOp.effects, Delete(RunningPath))
                  <=> data = Some(hostname)
            /\ data = Nothing => lastOp.effects = <<Get(RunningPath, Nothing)>>
            /\ zk[RunningPath] = IF data = Some(hostname) THEN Nothing
                                                          ELSE data

\* C9 witness: unregister_running found the record of another host and left
\* it in place.
C9_Witness ==
    /\ lastOp.op = "unregister_running"
    /\ zk[RunningPath] = Some(HostB)
    /\ hostname = HostA
    /\ ~Has(lastOp.effects, Delete(RunningPath))

\* The host:port that this instance writes for the endpoint named ep_name.
OwnHostPort(ep_name) ==
    LET i == CHOOSE i \in DOMAIN manifest.endpoints :
                 EpName(manifest.endpoints[i]) = ep_name
    IN  hostname \o <<":">> \o str(manifest.endpoints[i].real_port)

\* The text of a host:port before its port: all but the last ':' and what
\* follows it.
HostOf(hostport) ==
    LET i == CHOOSE i \in 1..Len(hostport) :
                 /\ hostport[i] = ":"
                 /\ \A j \in (i + 1)..Len(hostport) : hostport[j] /= ":"
    IN  SubSeq(hostport, 1, i - 1)

\* unregister_endpoints read the record at `path`.
WasRead(effects, path) ==
    \E i \in 1..Len(effects) : effects[i][1] = "get" /\ effects[i][2] = path

\* C10 as claimed: unregister_endpoints deletes a record only if the value
\* it read is the host:port this instance writes for that endpoint.
C10_DeleteOnlyOwnHostPort ==
    lastOp.op = "unregister_endpoints" =>
        \A n \in EpNames :
            Has(lastOp.effects, Delete(EndpointPath(n)))
                => Read(lastOp.effects, EndpointPath(n)) = Some(OwnHostPort(n))

\* C10 as amended: unregister_endpoints deletes a record only if the host of
\* the host:port it read is this instance's hostname; the port is not
\* compared: a record of this host is deleted whatever its port, a record
\* of another host is left in place.
C10_DeleteOnlyOwnHost ==
    lastOp.op = "unregister_endpoints" =>
        \A n \in EpNames :
            LET path == EndpointPath(n)
                deleted == Has(lastOp.effects, Delete(path))
            IN  /\ deleted => WasRead(lastOp.effects, path)
                /\ WasRead(lastOp.effects, path) =>
                      LET data == Read(lastOp.effects, path)
                      IN  /\ deleted <=> (/\ data /= Nothing
                                          /\ HostOf(data[1]) = hostname)
                          /\ zk[path] = IF deleted THEN Nothing ELSE data

\* C10 witness: unregister_endpoints deleted a record of this host with a
\* port other than the one this instance advertises, and left the record of
\* another host at its other endpoint.
C10_Witness ==
    /\ lastOp.op = "unregister_endpoints"
    /\ hostname = HostA
    /\ Has(lastOp.effects, Get(EndpointPath(Tcp), Some(HostPort(HostA, 5000))))
    /\ Has(lastOp.effects, Delete(EndpointPath(Tcp)))
    /\ OwnHostPort(Tcp) = HostPort(HostA, 5001)
    /\ zk[EndpointPath(str(80))] = Some(HostPort(HostB, 5000))

(***************************************************************************)
(* Unregistration step by step (specification SpecRace): the get and the   *)
(* delete of unregister_running and of unregister_endpoints are separate   *)
(* Zookeeper operations, and the sessions of other processes act between   *)
(* them.  pc = [op, i, data]: the call under way, the endpoint it is at,   *)
(* and the value it read if its delete is still to come.                   *)
(***************************************************************************)
\* What the delete of line 84 / 125 meets at `path`.
Met(path) ==
    IF zk[path] = Nothing THEN "gone"
    ELSE IF path \in foreign THEN "foreign" ELSE "own"

\* unregister_running, line 82-83: get and compare.
RunningGet ==
    /\ pc = Idle
    /\ LET data == zk[RunningPath]
       IN  /\ pc' = IF data /= Nothing /\ owns_running(data[1])
                    THEN [op |-> "unregister_running", i |-> 0, data |-> data]
                    ELSE Idle
           /\ lastOp' = Op("get", "", "None", <<Get(RunningPath, data)>>, "")
    /\ UNCHANGED <<lifeVars, hostname, zk, foreign, cell, posts, postCrashes,
                   starts, refused>>

\* unregister_running, line 84: delete; NoNodeError is caught (line 85).
RunningDelete ==
    /\ pc.op = "unregister_running"
    /\ zk' = [zk EXCEPT ![RunningPath] = Nothing]
    /\ foreign' = foreign \ {RunningPath}
    /\ pc' = Idle
    /\ lastOp' = Op("delete", "", "None", <<Delete(RunningPath)>>,
                    Met(RunningPath))
    /\ UNCHANGED <<lifeVars, hostname, cell, posts, postCrashes, starts,
                   refused>>

\* The position after endpoint i of unregister_endpoints.
AfterEndpoint(i) ==
    IF i < Len(manifest.endpoints)
    THEN [op |-> "unregister_endpoints", i |-> i + 1, data |-> Nothing]
    ELSE Idle

\* The endpoint that unregister_endpoints is at or, when idle, starts with.
AtEndpoint == IF pc = Idle THEN 1 ELSE pc.i

\* unregister_endpoints, lines 112-124: the name of the next endpoint (an
\* empty name ends the call), get and compare.
EndpointGet ==
    /\ \/ pc = Idle /\ Len(manifest.endpoints) > 0
       \/ pc.op = "unregister_endpoints" /\ pc.data = Nothing
    /\ LET i == AtEndpoint
           ep_name == EpName(manifest.endpoints[i])
           path == EndpointPath(ep_name)
           data == zk[path]
       IN  IF ep_name = <<>>
           THEN /\ pc' = Idle
                /\ lastOp' = Op("return", "", "None", <<>>, "")
           ELSE /\ pc' = IF data /= Nothing /\ owns_endpoint(data[1])
                         THEN [op |-> "unregister_endpoints", i |-> i,
                               data |-> data]
                         ELSE AfterEndpoint(i)
                /\ lastOp' = Op("get", "", "None", <<Get(path, data)>>, "")
    /\ UNCHANGED <<lifeVars, hostname, zk, foreign, cell, posts, postCrashes,
                   starts, refused>>

\* unregister_endpoints, line 125: delete; NoNodeError is caught (line 126).
EndpointDelete ==
    /\ pc.op = "unregister_endpoints" /\ pc.data /= Nothing
    /\ LET path == EndpointPath(EpName(manifest.endpoints[pc.i]))
       IN  /\ zk' = [zk EXCEPT ![path] = Nothing]
           /\ foreign' = foreign \ {path}
           /\ lastOp' = Op("delete", "", "None", <<Delete(path)>>, Met(path))
    /\ pc' = AfterEndpoint(pc.i)
    /\ UNCHANGED <<lifeVars, hostname, cell, posts, postCrashes, starts,
                   refused>>

\* The session that owns the record at `path` has ended, and the session of
\* a different process (on this host or another) creates a record there.
OtherSessionRecreate(path, data) ==
    /\ path \in ManifestPaths
    /\ data \in ValuesAt(path)
    /\ zk[path] = Nothing
    /\ zk' = [zk EXCEPT ![path] = Some(data)]
    /\ foreign' = foreign \cup {path}
    /\ lastOp' = EnvOp("create", "")
    /\ UNCHANGED <<lifeVars, hostname, pc, cell, posts, postCrashes, starts,
                   refused>>

\* The records this process wrote when it registered.
OwnRecord(path) ==
    IF path = RunningPath THEN hostname
    ELSE LET i == CHOOSE i \in DOMAIN manifest.endpoints :
                     EndpointPath(EpName(manifest.endpoints[i])) = path
         IN  HostPort(hostname, manifest.endpoints[i].real_port)

InitRace ==
    /\ \E eps \in EndpointLists :
          manifest = [task |-> "t1", services |-> <<>>, endpoints |-> eps]
    /\ iter_order = <<>>
    /\ finished = [s \in ServiceNames |-> NoFinished]
    /\ reported = [s \in ServiceNames |-> Nothing]
    /\ up = [s \in ServiceNames |-> FALSE]
    /\ downFile = [s \in ServiceNames |-> FALSE]
    /\ last_exit = [s \in ServiceNames |-> Nothing]
    /\ now = StartNow
    /\ exitinfo = <<>>
    /\ hostname = HostA
    /\ zk = [p \in Paths |-> IF p \in ManifestPaths THEN Some(OwnRecord(p))
                                                    ELSE Nothing]
    /\ foreign = {}
    /\ pc = Idle
    /\ cell = NoCell
    /\ InitHist

NextRace ==
    \/ RunningGet
    \/ RunningDelete
    \/ EndpointGet
    \/ EndpointDelete
    \/ \E path \in Paths : SessionExpire(path)
    \/ \E path \in Paths : \E data \in ValuesAt(path) :
          OtherSessionRecreate(path, data)

SpecRace == InitRace /\ [][NextRace]_vars

\* C11 as claimed: whatever the interleaving, the delete of an unregistration
\* never removes a record that a different session has re-created.
C11_NeverDeletesRecreated ==
    ~(lastOp.op = "delete" /\ lastOp.outcome = "foreign")

\* C11 as amended: the ownership check is on the value read: a delete is
\* issued only after a read of a value with this host's name, and a read of
\* a record another session re-created with another host's name issues
\* none; when the read and the delete follow each other with nothing in
\* between, the delete removes the record that was read.  A record that is
\* re-created between the read and the delete, or with this host's name, is
\* not protected.
C11_CheckIsOnValueRead ==
    /\ [][lastOp'.op = "delete" /\ lastOp' /= lastOp =>
            /\ pc.data /= Nothing
            /\ SplitFirst(pc.data[1]) = hostname]_vars
    /\ [][lastOp'.op = "get" /\ lastOp' /= lastOp =>
            LET data == lastOp'.effects[1][3]
            IN  (data = Nothing \/ SplitFirst(data[1]) /= hostname)
                    => pc'.data = Nothing /\ zk' = zk]_vars
    /\ [](lastOp.op = "delete" /\ lastOp.after.op = "get"
              => lastOp.outcome /= "gone")

\* C11 witness: a record re-created by another session right after the read
\* was deleted; and before that a record re-created with another host's name
\* was read and left alone.
C11_Witness ==
    /\ lastOp.op = "delete" /\ lastOp.outcome = "foreign"
    /\ lastOp.effects = <<Delete(EndpointPath(Tcp))>>
    /\ lastOp.after.op = "create"
    /\ zk[RunningPath] = Some(HostB) /\ RunningPath \in foreign

(***************************************************************************)
(* kill_node (specification SpecReap).  cell holds what kill_node reads    *)
(* besides the presence records of the workloads:                          *)
(*   servers   - the nodes whose own presence record exists                *)
(*   placement - per node, the workloads placed on it, as get_children     *)
(*               lists them                                                *)
(*   scheduled - per workload, its manifest (the endpoints), or Nothing    *)
(***************************************************************************)
AppY == <<"y">>
Apps == {appname, AppY}

\* z.path.server(node), z.path.placement(node), z.path.scheduled(app)
ServerPath(node) == <<"servers", node>>
PlacementPath(node) == <<"placement", node>>
ScheduledPath(app) == <<"scheduled", app>>

\* z.path.server_presence(node): the node's own presence subtree, which
\* holds the node's presence record.
ServerPresencePath(node) == ServerPath(node)

GetChildren(path, children) == <<"get_children", path, Some(children)>>
EnsureDeleted(path) == <<"ensure_deleted", path, Nothing>>

\* zkutils.ensure_deleted(zkclient, z.path.server_presence(node)): the
\* subtree is removed; it is no error if it is gone already.
ensure_deleted(c, node) == [c EXCEPT !.servers = @ \ {node}]

\* EndpointPresence(zkclient, manifest, hostname=node, appname=app)
\* .unregister_running(), on the store `store`.
app_unregister_running(store, node, app) ==
    LET path == AppRunningPath(app)
        data == store[path]
    IN  IF data = Nothing
        THEN [effects |-> <<Get(path, Nothing)>>, store |-> store]
        ELSE IF data[1] = node
        THEN [effects |-> <<Get(path, data), Delete(path)>>,
              store |-> [store EXCEPT ![path] = Nothing]]
        ELSE [effects |-> <<Get(path, data)>>, store |-> store]

\* EndpointPresence(zkclient, manifest, hostname=node, appname=app)
\* .unregister_endpoints(), from the i-th endpoint of the manifest on.
RECURSIVE app_unregister_endpoints_from(_, _, _, _, _, _)
app_unregister_endpoints_from(i, store, effects, node, app, endpoints) ==
    IF i > Len(endpoints)
    THEN [effects |-> effects, store |-> store]
    ELSE LET ep_name == EpName(endpoints[i])
             path == AppEndpointPath(app, ep_name)
             data == store[path]
         IN  IF ep_name = <<>>
             THEN [effects |-> effects, store |-> store]
             ELSE IF data = Nothing
             THEN app_unregister_endpoints_from(
                      i + 1, store, Append(effects, Get(path, Nothing)),
                      node, app, endpoints)
             ELSE IF SplitFirst(data[1]) = node
             THEN app_unregister_endpoints_from(
                      i + 1, [store EXCEPT ![path] = Nothing],
                      effects \o <<Get(path, data), Delete(path)>>,
                      node, app, endpoints)
             ELSE app_unregister_endpoints_from(
                      i + 1, store, Append(effects, Get(path, data)),
                      node, app, endpoints)

\* Faulty variants of the loop of kill_node: how it goes on after a workload
\* that is no longer scheduled ("stop": it ends there).
RECURSIVE ReapVariant(_, _, _, _, _)
ReapVariant(i, store, effects, node, unscheduled) ==
    LET apps == cell.placement[node]
    IN  IF i > Len(apps)
        THEN [effects |-> effects, store |-> store]
        ELSE LET app == apps[i]
                 m == cell.scheduled[app]
             IN  IF m = Nothing
                 THEN IF unscheduled = "stop"
                      THEN [effects |->
                               Append(effects,
                                      Get(ScheduledPath(app), Nothing)),
                            store |-> store]
                      ELSE ReapVariant(
                               i + 1, store,
                               Append(effects,
                                      Get(ScheduledPath(app), Nothing)),
                               node, unscheduled)
                 ELSE LET r1 == app_unregister_running(store, node, app)
                          r2 == app_unregister_endpoints_from(
                                    1, r1.store, <<>>, node, app, m[1])
                      IN  ReapVariant(
                              i + 1, r2.store,
                              effects \o <<Get(ScheduledPath(app), m)>>
                                      \o r1.effects \o r2.effects,
                              node, unscheduled)

reap_from_stops(i, store, effects, node) ==
    ReapVariant(i, store, effects, node, "stop")

(***************************************************************************)
(* kill_node, lines 176-187: for the workloads of the placement listing    *)
(* from the i-th on, read the scheduled manifest and unregister the        *)
(* running record and the endpoints; NoNodeError (the workload is no       *)
(* longer scheduled) is caught and the loop goes on.                       *)
(***************************************************************************)
RECURSIVE reap_from(_, _, _, _)
reap_from(i, store, effects, node) ==
    LET apps == cell.placement[node]
    IN  IF i > Len(apps)
        THEN [effects |-> effects, store |-> store]
        ELSE LET app == apps[i]
                 m == cell.scheduled[app]
             IN  IF m = Nothing
                 THEN reap_from(i + 1, store,
                                Append(effects,
                                       Get(ScheduledPath(app), Nothing)),
                                node)
                 ELSE LET r1 == app_unregister_running(store, node, app)
                          r2 == app_unregister_endpoints_from(
                                    1, r1.store, <<>>, node, app, m[1])
                      IN  reap_from(i + 1, r2.store,
                                    effects \o <<Get(ScheduledPath(app), m)>>
                                            \o r1.effects \o r2.effects,
                                    node)

\* Faulty variants of kill_node: the node's presence is not looked at
\* first; the node's presence subtree is not deleted at the end.
KillVariant(node, guarded, deletes) ==
    IF guarded /\ node \notin cell.servers
    THEN [result |-> "None",
          effects |-> <<Get(ServerPath(node), Nothing)>>,
          store |-> zk, cell |-> cell]
    ELSE LET apps == cell.placement[node]
             r == reap_from(1, zk, <<>>, node)
         IN  [result |-> "None",
              effects |-> <<Get(ServerPath(node), Some(node)),
                            GetChildren(PlacementPath(node), apps)>>
                          \o r.effects
                          \o (IF deletes
                              THEN <<EnsureDeleted(ServerPresencePath(node))>>
                              ELSE <<>>),
              store |-> r.store,
              cell |-> IF deletes THEN ensure_deleted(cell, node) ELSE cell]

kill_node_unguarded(node) == KillVariant(node, FALSE, TRUE)

kill_node_keeps_node(node) == KillVariant(node, TRUE, FALSE)

(***************************************************************************)
(* kill_node(zkclient, node): what one run does, as a record               *)
(*   result  - "None" (it returns)                                         *)
(*   effects - the Zookeeper operations, in order                          *)
(*   store   - the presence records after the run                          *)
(*   cell    - servers, placement and scheduled after the run              *)
(***************************************************************************)
kill_node(node) ==
    IF node \notin cell.servers
    THEN [result |-> "None",
          effects |-> <<Get(ServerPath(node), Nothing)>>,
          store |-> zk, cell |-> cell]
    ELSE LET apps == cell.placement[node]
             r == reap_from(1, zk, <<>>, node)
         IN  [result |-> "None",
              effects |-> <<Get(ServerPath(node), Some(node)),
                            GetChildren(PlacementPath(node), apps)>>
                          \o r.effects
                          \o <<EnsureDeleted(ServerPresencePath(node))>>,
              store |-> r.store,
              cell |-> ensure_deleted(cell, node)]

KillNode(node) ==
    /\ zk' = kill_node(node).store
    /\ cell' = kill_node(node).cell
    /\ lastOp' = Op("kill_node", "", kill_node(node).result,
                    kill_node(node).effects, "")
    /\ UNCHANGED <<lifeVars, hostname, foreign, pc, posts, postCrashes,
                   starts, refused>>

\* The manifests of the scheduled workloads: the endpoints of x and of y.
ScheduledEndpoints(app) ==
    IF app = appname THEN <<Endpoint(Some(Http), 80, 5000)>>
    ELSE <<Endpoint(Nothing, 80, 5000)>>

\* The presence records of the workloads.
ReapPaths ==
    {AppRunningPath(app) : app \in Apps} \cup
    {AppEndpointPath(app, EpName(ScheduledEndpoints(app)[1])) : app \in Apps}

\* What the instance of a workload on host h writes at a path.
AppRecord(path, h) ==
    IF path[1] = "running" THEN h ELSE HostPort(h, 5000)

\* The instance of a workload on host h registers a record.
AppRegister(path, h) ==
    /\ zk[path] = Nothing
    /\ zk' = [zk EXCEPT ![path] = Some(AppRecord(path, h))]
    /\ lastOp' = EnvOp("create", "")
    /\ UNCHANGED <<lifeVars, hostname, foreign, pc, cell, posts, postCrashes,
                   starts, refused>>

\* A node registers its own presence.
NodeUp(node) ==
    /\ node \notin cell.servers
    /\ cell' = [cell EXCEPT !.servers = @ \cup {node}]
    /\ lastOp' = EnvOp("node_up", "")
    /\ UNCHANGED <<lifeVars, hostname, zk, foreign, pc, posts, postCrashes,
                   starts, refused>>

\* The scheduler removes the manifest of a workload.
Unschedule(app) ==
    /\ cell.scheduled[app] /= Nothing
    /\ cell' = [cell EXCEPT !.scheduled[app] = Nothing]
    /\ lastOp' = EnvOp("unschedule", "")
    /\ UNCHANGED <<lifeVars, hostname, zk, foreign, pc, posts, postCrashes,
                   starts, refused>>

\* The placement listings of node a; node b has no workload.
Placements == {<<appname>>, <<appname, AppY>>, <<AppY, appname>>}

InitReap ==
    /\ manifest = [task |-> "t1", services |-> <<>>, endpoints |-> <<>>]
    /\ iter_order = <<>>
    /\ finished = [s \in ServiceNames |-> NoFinished]
    /\ reported = [s \in ServiceNames |-> Nothing]
    /\ up = [s \in ServiceNames |-> FALSE]
    /\ downFile = [s \in ServiceNames |-> FALSE]
    /\ last_exit = [s \in ServiceNames |-> Nothing]
    /\ now = StartNow
    /\ exitinfo = <<>>
    /\ hostname = HostA
    /\ zk = [p \in ReapPaths |-> Nothing]
    /\ foreign = {}
    /\ pc = Idle
    /\ \E pl \in Placements :
          cell = [servers |-> Hosts,
                  placement |-> [n \in Hosts |-> IF n = HostA THEN pl
                                                             ELSE <<>>],
                  scheduled |-> [app \in Apps |->
                                    Some(ScheduledEndpoints(app))]]
    /\ InitHist

NextReap ==
    \/ \E node \in Hosts : KillNode(node)
    \/ \E path \in ReapPaths, h \in Hosts : AppRegister(path, h)
    \/ \E path \in ReapPaths : SessionExpire(path)
    \/ \E node \in Hosts : NodeUp(node)
    \/ \E app \in Apps : Unschedule(app)

SpecReap == InitReap /\ [][NextReap]_vars

(***************************************************************************)
(* Properties of kill_node (specification SpecReap).                       *)
(***************************************************************************)
\* op is kill_node(node): its first operation is the get of the node.
IsKill(op, node) ==
    op.op = "kill_node" /\ op.effects[1][2] = ServerPath(node)

\* kill_node(node) is the last operation.
Killed(node) == IsKill(lastOp, node)

\* Two kill_node(node) calls in a row, nothing in between.
TwoKills(node) == Killed(node) /\ IsKill(lastOp.after, node)

\* The first index of effect e in effects (0 if it is not there).
IndexOf(effects, e) ==
    IF Has(effects, e)
    THEN CHOOSE i \in 1..Len(effects) :
            /\ effects[i] = e
            /\ \A j \in 1..(i - 1) : effects[j] /= e
    ELSE 0

\* The store holds a record of `node` for a scheduled workload placed on it.
LeftToReap(node) ==
    \E i \in DOMAIN cell.placement[node] :
        LET app == cell.placement[node][i]
            m == cell.scheduled[app]
        IN  /\ m /= Nothing
            /\ \/ zk[AppRunningPath(app)] = Some(node)
               \/ \E k \in DOMAIN m[1] :
                     LET data == zk[AppEndpointPath(app, EpName(m[1][k]))]
                     IN  data /= Nothing /\ HostOf(data[1]) = node

IsDelete(e) == e[1] \in {"delete", "ensure_deleted"}

C13_AbsentNodeNoOp ==
    [][\A node \in Hosts :
          (IsKill(lastOp', node) /\ node \notin cell.servers)
              => /\ lastOp'.effects = <<Get(ServerPath(node), Nothing)>>
                 /\ lastOp'.result = "None"
                 /\ zk' = zk
                 /\ cell' = cell]_vars

\* C13 witness: kill_node returned at the presence check although records
\* of the node were there for a scheduled workload placed on it.
C13_Witness ==
    /\ Killed(HostA)
    /\ HostA \notin cell.servers
    /\ lastOp.after.op /= "kill_node"
    /\ zk[AppRunningPath(appname)] = Some(HostA)
    /\ zk[AppEndpointPath(appname, Http)] = Some(HostPort(HostA, 5000))
    /\ LeftToReap(HostA)

Answer(store, path, fails) ==
    IF fails THEN "error"
    ELSE IF node_exists(store, path) THEN "exists" ELSE "ok"

\* Faulty variant of the loop: any exception is retried.
attempt_retries_all(k, answer) ==
    IF answer = "ok" THEN "None"
    ELSE IF k < CREATE_ATTEMPTS THEN "retry" ELSE "raise"

\* Lines 42-49, the k-th pass of the loop: return what create returns, go
\* to the next pass after NodeExistsError (raise after the last pass), let
\* any other exception through.
attempt(k, answer) ==
    IF answer = "ok" THEN "None"
    ELSE IF answer = "error" THEN "error"
    ELSE IF k < CREATE_ATTEMPTS THEN "retry" ELSE "raise"

\* The attempt that the call under way is to make next, and the endpoint
\* that register_endpoints is at.
AtAttempt == IF pc = Idle THEN 1 ELSE pc.i
AtCreate == IF pc = Idle \/ pc.data = Nothing THEN 1 ELSE pc.data[1]

\* One attempt of register_running (line 73) or of register_endpoints for
\* the endpoint it is at (lines 94-104); after the record of an endpoint is
\* created register_endpoints goes to the next endpoint.
CreateAttempt(op, fails) ==
    /\ op \in {"register_running", "register_endpoints"}
    /\ pc = Idle \/ pc.op = op
    /\ LET k == AtAttempt
           j == AtCreate
           endpoint == manifest.endpoints[j]
           path == IF op = "register_running" THEN RunningPath
                   ELSE EndpointPath(EpName(endpoint))
           data == IF op = "register_running" THEN hostname
                   ELSE HostPort(hostname, endpoint.real_port)
           answer == Answer(zk, path, fails)
           next == attempt(k, answer)
       IN  /\ zk' = IF answer = "ok" THEN [zk EXCEPT ![path] = Some(data)]
                                     ELSE zk
           /\ pc' = IF next = "retry"
                    THEN [op |-> op, i |-> k + 1, data |-> pc.data]
                    ELSE IF /\ next = "None" /\ op = "register_endpoints"
                            /\ j < Len(manifest.endpoints)
                    THEN [op |-> op, i |-> 1, data |-> Some(j + 1)]
                    ELSE Idle
           /\ lastOp' = Op("create", "", next, <<Create(path, data)>>, answer)
    /\ UNCHANGED <<lifeVars, hostname, foreign, cell, posts, postCrashes,
                   starts, refused>>

NextCreate ==
    \/ \E op \in {"register_running", "register_endpoints"} :
          \E fails \in BOOLEAN : CreateAttempt(op, fails)
    \/ \E path \in Paths : \E data \in ValuesAt(path) :
          OtherSessionCreate(path, data)
    \/ \E path \in Paths : SessionExpire(path)

SpecCreate == InitPresence /\ [][NextCreate]_vars

\* C15: a call makes at most 5 create attempts for a record; an attempt that
\* meets no node creates the record and is the last for it; an attempt that
\* meets a node changes nothing, and is followed by the next attempt if it
\* is one of the first 4, and by the fatal error if it is the 5th; an
\* attempt that fails otherwise ends the call with that error, whichever
\* attempt it is.
C15_BoundedRetry ==
    /\ [](AtAttempt \in 1..CREATE_ATTEMPTS)
    /\ [][lastOp'.op = "create" =>
            LET k == AtAttempt
                path == lastOp'.effects[1][2]
                answer == lastOp'.outcome
                next == lastOp'.result
            IN  /\ answer = "ok" =>
                      /\ zk[path] = Nothing
                      /\ next = "None" /\ AtAttempt' = 1
                      /\ zk'[path] = lastOp'.effects[1][3]
                /\ answer = "exists" =>
                      /\ zk[path] /= Nothing
                      /\ zk' = zk
                      /\ IF k < 5
                         THEN /\ next = "retry" /\ pc'.i = k + 1
                              /\ pc /= Idle =>
                                    pc'.op = pc.op /\ pc'.data = pc.data
                         ELSE next = "raise" /\ pc' = Idle
                /\ answer = "error" =>
                      next = "error" /\ pc' = Idle /\ zk' = zk
                /\ next = "retry" => answer = "exists"]_vars

\* C15 witness: the 5th attempt in a row met a node: the call raised, and
\* the node of the other session is still there.
C15_Witness ==
    /\ lastOp.op = "create" /\ lastOp.result = "raise"
    /\ lastOp.after.op = "create" /\ lastOp.after.outcome = "exists"
    /\ zk[RunningPath] = Some(HostB)
    /\ pc = Idle

(***************************************************************************)
(* Registration (specification SpecRegister): register_identity,           *)
(* register_running, register_endpoints and register, on a store in which  *)
(* records of earlier instances may still be present.                      *)
(***************************************************************************)
\* str(_INVALID_IDENTITY), the text of sys.maxint (line 29).
InvalidIdentity == <<"m", "a", "x", "i", "n", "t">>

\* str(self.manifest.get('identity', _INVALID_IDENTITY))
IdentityName(identity) ==
    IF identity = Nothing THEN InvalidIdentity ELSE str(identity[1])

\* z.path.identity_group(identity_group, identity)
IdentityPath(group, identity) == <<"identity-groups", group, identity>>

Group == <<"g">>

\* {'host': self.hostname, 'app': self.appname}
IdentityData(host) == [host |-> host, app |-> appname]

\* `not identity_group`: the key is missing, None or the empty string.
NoIdentityGroup == manifest.identity_group \in {Nothing, Some(<<>>)}

\* The path of the identity record of the manifest.
OwnIdentityPath ==
    IdentityPath(manifest.identity_group[1], IdentityName(manifest.identity))

\* register_identity on the store `store`.
register_identity(store, free_at) ==
    IF NoIdentityGroup
    THEN [result |-> "None", effects |-> <<>>, store |-> store]
    ELSE create_ephemeral_with_retry(store, OwnIdentityPath,
                                     IdentityData(hostname), free_at)

\* Faulty variant of register: the running record is created first.
register_running_first(free_at) ==
    LET r1 == create_ephemeral_with_retry(zk, RunningPath, hostname,
                                          free_at.running)
        r2 == register_identity(r1.store, free_at.identity)
    IN  IF r1.result /= "None" THEN r1
        ELSE IF r2.result /= "None"
        THEN [result |-> r2.result, effects |-> r1.effects \o r2.effects,
              store |-> r2.store]
        ELSE register_endpoints_from(1, r2.store, r1.effects \o r2.effects,
                                     free_at.endpoints)

(***************************************************************************)
(* register: register_identity, register_running, register_endpoints; an   *)
(* exception of one of them ends the call, and what was created stays.     *)
(* free_at = [identity, running, endpoints]: for each record, the attempt  *)
(* at which a node found at its path is gone.                              *)
(***************************************************************************)
register(free_at) ==
    LET r1 == register_identity(zk, free_at.identity)
        r2 == create_ephemeral_with_retry(r1.store, RunningPath, hostname,
                                          free_at.running)
    IN  IF r1.result /= "None" THEN r1
        ELSE IF r2.result /= "None"
        THEN [result |-> r2.result, effects |-> r1.effects \o r2.effects,
              store |-> r2.store]
        ELSE register_endpoints_from(1, r2.store, r1.effects \o r2.effects,
                                     free_at.endpoints)

Register(free_at) ==
    /\ zk' = register(free_at).store
    /\ lastOp' = Op("register", "", register(free_at).result,
                    register(free_at).effects, "")
    /\ UNCHANGED <<lifeVars, hostname, foreign, pc, cell, posts, postCrashes,
                   starts, refused>>

RegisterIdentity(free_at) ==
    /\ zk' = register_identity(zk, free_at).store
    /\ lastOp' = Op("register_identity", "",
                    register_identity(zk, free_at).result,
                    register_identity(zk, free_at).effects, "")
    /\ UNCHANGED <<lifeVars, hostname, foreign, pc, cell, posts, postCrashes,
                   starts, refused>>

RegisterRunningRecord(free_at) ==
    /\ zk' = register_running(free_at).store
    /\ lastOp' = Op("register_running", "", register_running(free_at).result,
                    register_running(free_at).effects, "")
    /\ UNCHANGED <<lifeVars, hostname, foreign, pc, cell, posts, postCrashes,
                   starts, refused>>

\* The paths of the records of the manifest, the identity record included.
RegisterPaths ==
    ManifestPaths \cup (IF NoIdentityGroup THEN {} ELSE {OwnIdentityPath})

\* The record that an instance of the workload on host h writes at a path.
RecordOf(path, h) ==
    IF path = RunningPath THEN h
    ELSE IF path[1] = "identity-groups" THEN IdentityData(h)
    ELSE LET i == CHOOSE i \in DOMAIN manifest.endpoints :
                     EndpointPath(EpName(manifest.endpoints[i])) = path
         IN  HostPort(h, manifest.endpoints[i].real_port)

\* The record of an earlier instance, on another host, whose session has
\* not ended yet.
StaleRecord(path) ==
    /\ path \in RegisterPaths
    /\ zk[path] = Nothing
    /\ zk' = [zk EXCEPT ![path] = Some(RecordOf(path, HostB))]
    /\ lastOp' = EnvOp("create", "")
    /\ UNCHANGED <<lifeVars, hostname, foreign, pc, cell, posts, postCrashes,
                   starts, refused>>

\* All paths of the registration specification.
AllRegisterPaths ==
    Paths \cup {IdentityPath(Group, IdentityName(id)) :
                   id \in {Nothing, Some(1)}}

\* A node found at a path is gone at the 2nd attempt, or outlives the call.
GoneAt == {2, CREATE_ATTEMPTS + 1}

InitRegister ==
    /\ \E eps \in EndpointLists :
       \E group \in {Nothing, Some(<<>>), Some(Group)} :
       \E id \in {Nothing, Some(1)} :
          /\ group /= Some(Group) => id = Nothing
          /\ manifest = [task |-> "t1", services |-> <<>>, endpoints |-> eps,
                         identity_group |-> group, identity |-> id]
    /\ iter_order = <<>>
    /\ finished = [s \in ServiceNames |-> NoFinished]
    /\ reported = [s \in ServiceNames |-> Nothing]
    /\ up = [s \in ServiceNames |-> FALSE]
    /\ downFile = [s \in ServiceNames |-> FALSE]
    /\ last_exit = [s \in ServiceNames |-> Nothing]
    /\ now = StartNow
    /\ exitinfo = <<>>
    /\ hostname = HostA
    /\ zk = [p \in AllRegisterPaths |-> Nothing]
    /\ foreign = {}
    /\ pc = Idle
    /\ cell = NoCell
    /\ InitHist

NextRegister ==
    \/ \E fi \in GoneAt, fr \in GoneAt :
       \E fe \in [DOMAIN manifest.endpoints -> GoneAt] :
          Register([identity |-> fi, running |-> fr, endpoints |-> fe])
    \/ \E f \in GoneAt : RegisterIdentity(f)
    \/ \E f \in GoneAt : RegisterRunningRecord(f)
    \/ \E f \in [DOMAIN manifest.endpoints -> GoneAt] : RegisterEndpoints(f)
    \/ \E path \in AllRegisterPaths : StaleRecord(path)
    \/ \E path \in AllRegisterPaths : SessionExpire(path)

SpecRegister == InitRegister /\ [][NextRegister]_vars

RegisterOps == {"register_identity", "register_running", "register_endpoints"}

\* C16: each of register_identity, register_running and register_endpoints
\* is idempotent: called again right after it has succeeded, its record
\* still in the store, it succeeds and leaves the store unchanged.
C16_ReRegisterSucceeds ==
    [][\A op \in RegisterOps :
          (lastOp.op = op /\ lastOp.result = "None" /\ lastOp'.op = op)
              => lastOp'.result = "None" /\ zk' = zk]_vars

\* 1 for the identity record, 2 for the running record, 2 + i for the
\* record of the i-th endpoint of the manifest.
RecordRank(path) ==
    IF path[1] = "identity-groups" THEN 1
    ELSE IF path = RunningPath THEN 2
    ELSE 2 + (CHOOSE i \in DOMAIN manifest.endpoints :
                 EndpointPath(EpName(manifest.endpoints[i])) = path)

\* C17: register creates the identity record (when the manifest has an
\* identity group, and only then) before the running record and that before
\* the endpoint records, these in manifest order; when a step raises, the
\* call ends there and the records of the earlier steps are in the store.
C17_RegisterOrder ==
    lastOp.op = "register" =>
        LET e == lastOp.effects
            last == e[Len(e)][2]
        IN  /\ Len(e) > 0
            /\ \A i \in DOMAIN e : e[i][1] = "create"
            /\ \A i, j \in DOMAIN e :
                  i < j => RecordRank(e[i][2]) <= RecordRank(e[j][2])
            /\ NoIdentityGroup <=> RecordRank(e[1][2]) /= 1
            /\ lastOp.result = "None" =>
                  {e[i][2] : i \in DOMAIN e} = RegisterPaths
            /\ lastOp.result = "raise" =>
                  /\ \A p \in RegisterPaths :
                        RecordRank(p) < RecordRank(last)
                            => zk[p] = Some(RecordOf(p, hostname))
                  /\ \A i \in DOMAIN e : i > Len(e) - CREATE_ATTEMPTS
                                             => e[i][2] = last

\* A register call that created the identity and running records and then
\* gave up on an endpoint record.
C17_Witness ==
    /\ lastOp.op = "register"
    /\ lastOp.result = "raise"
    /\ ~NoIdentityGroup
    /\ RecordRank(lastOp.effects[Len(lastOp.effects)][2]) > 2
    /\ zk[OwnIdentityPath] = Some(IdentityData(hostname))
    /\ zk[RunningPath] = Some(hostname)

(***************************************************************************)
(* start_all (specification SpecStartAll): start_service for the services  *)
(* of self.services in the iteration order of that dictionary, up to the   *)
(* first that does not return True.  A service's start reads and writes    *)
(* that service's files only, so each call is taken on the state start_all *)
(* began with.                                                             *)
(***************************************************************************)
\* _LOGGER.info('Starting: %s', service_name)
Starting(s) == <<"Starting", s>>

\* The loop reaches the i-th service of the iteration order.
start_reached(i) ==
    \A j \in 1..(i - 1) : start_service(iter_order[j]).result = "True"

\* The services start_service is called for.
start_attempted ==
    {iter_order[i] : i \in {j \in 1..Len(iter_order) : start_reached(j)}}

RECURSIVE start_effects(_)
start_effects(i) ==
    IF i > Len(iter_order) \/ ~start_reached(i) THEN <<>>
    ELSE <<Starting(iter_order[i])>> \o start_service(iter_order[i]).effects
         \o start_effects(i + 1)

\* start_all: result and name are the two components of the returned pair
\* (name "" is None); "raise" is an exception of start_service.
start_all ==
    LET ends == {i \in 1..Len(iter_order) :
                    /\ start_reached(i)
                    /\ start_service(iter_order[i]).result /= "True"}
        last == CHOOSE i \in ends : TRUE
    IN  [result |-> IF ends = {} THEN "True"
                    ELSE start_service(iter_order[last]).result,
         name |-> IF ends = {} THEN ""
                  ELSE IF start_service(iter_order[last]).result = "False"
                  THEN iter_order[last] ELSE "",
         effects |-> start_effects(1)]

StartAll ==
    /\ LET r(s) == start_service(s)
           did == start_attempted
       IN  /\ reported' = [s \in ServiceNames |->
                IF s \in did THEN r(s).flush.reported ELSE reported[s]]
           /\ last_exit' = [s \in ServiceNames |->
                IF s \in did THEN r(s).flush.last_exit ELSE last_exit[s]]
           /\ up' = [s \in ServiceNames |->
                IF s \in did THEN r(s).up ELSE up[s]]
           /\ starts' = [s \in ServiceNames |->
                IF s \in did /\ r(s).started THEN starts[s] + 1
                                             ELSE starts[s]]
           /\ posts' = [s \in ServiceNames |->
                IF s \in did THEN Posted(posts, s, r(s).flush.events)[s]
                             ELSE posts[s]]
           /\ refused' = [s \in ServiceNames |->
                refused[s] \/ (s \in did /\ r(s).result = "False")]
           /\ lastOp' = Op("start_all", start_all.name, start_all.result,
                           start_all.effects, "")
    /\ UNCHANGED presVars
    /\ UNCHANGED <<exitinfo, manifest, finished, downFile, now, iter_order,
                   postCrashes>>

\* The orders in which a dictionary with the keys `names` may be iterated.
IterOrders(names) ==
    {o \in [1..Cardinality(names) -> names] :
        \A i, j \in DOMAIN o : o[i] = o[j] => i = j}

\* Restart bounds and finish logs of the services at start_all.
StartAllCounts == {Some(-1), Some(1)}
StartAllLogs == {NoFinished, Finished(<<Row(0, 1, 0)>>)}

InitStartAll ==
    /\ \E svcs \in {<<"web", "db">>, <<"db", "web">>} :
       \E rc \in [1..2 -> StartAllCounts] :
          manifest = Manifest("t1", [i \in 1..2 |-> Service(svcs[i], rc[i])])
    /\ iter_order \in IterOrders(Declared)
    /\ finished \in [ServiceNames -> StartAllLogs]
    /\ reported = [s \in ServiceNames |->
                     IF finished[s].exists THEN Some(1) ELSE Nothing]
    /\ up = [s \in ServiceNames |-> FALSE]
    /\ downFile = [s \in ServiceNames |-> TRUE]
    /\ last_exit = [s \in ServiceNames |-> Nothing]
    /\ now = StartNow
    /\ exitinfo = <<>>
    /\ InitNoPresence
    /\ InitHist

NextStartAll ==
    \/ StartAll
    \/ \E s \in ServiceNames, code \in ExitCodes : ServiceExit(s, code)

SpecStartAll == InitStartAll /\ [][NextStartAll]_vars

\* The services start_all called start_service for, in the order of the
\* calls.
StartCalls ==
    SelectSeq(lastOp.effects, LAMBDA e : e[1] = "Starting")

\* C18: start_all calls start_service for the services in manifest order;
\* it stops at the first that returns failure and returns (False, its
\* name), with the services started before it still up; when every service
\* starts it returns (True, None).
C18_StartAllManifestOrder ==
    lastOp.op = "start_all" =>
        /\ \A i \in DOMAIN StartCalls :
              StartCalls[i][2] = manifest.services[i].name
        /\ lastOp.result = "False" =>
              /\ lastOp.svc = StartCalls[Len(StartCalls)][2]
              /\ \A i \in 1..(Len(StartCalls) - 1) : up[StartCalls[i][2]]
        /\ lastOp.result = "True" =>
              /\ lastOp.svc = ""
              /\ Len(StartCalls) = Len(manifest.services)
              /\ \A i \in DOMAIN StartCalls : up[StartCalls[i][2]]

(***************************************************************************)
(* exit_app (specification SpecExit).                                      *)
(***************************************************************************)
\* exit_app calls made in one run.
MaxExitCalls == 2

(***************************************************************************)
(* exit_app(service_name, killed), with is_oom() returning oom:            *)
(*   result - "None", or "raise" (KeyError: no such service)               *)
(*   file   - what open(.., 'w+') and write leave in exitinfo              *)
(* service_name is Nothing (None) or Some(name).  The keys 'service',      *)
(* 'killed' and 'oom' that lines 409 and 415 set in the cached dictionary  *)
(* are set anew by every call before they are read, and a later            *)
(* update_exit_status replaces the dictionary: last_exit keeps the exit    *)
(* summary only.                                                           *)
(***************************************************************************)
exit_app(service_name, killed, oom) ==
    IF service_name /= Nothing /\ service_name[1] \notin Declared
    THEN [result |-> "raise", file |-> Nothing]
    ELSE [result |-> "None",
          file |-> Some([service |-> service_name,
                         exit |-> IF service_name = Nothing THEN Nothing
                                  ELSE last_exit[service_name[1]],
                         killed |-> killed,
                         oom |-> oom])]

ExitApp(service_name, killed, oom) ==
    /\ Len(exitinfo) < MaxExitCalls
    /\ exitinfo' = exitinfo \o exit_app(service_name, killed, oom).file
    /\ lastOp' = Op("exit_app",
                    IF service_name = Nothing THEN "" ELSE service_name[1],
                    exit_app(service_name, killed, oom).result, <<>>, "")
    /\ UNCHANGED presVars
    /\ UNCHANGED <<refused, manifest, finished, reported, up, downFile,
                   last_exit, now, iter_order, posts, postCrashes, starts>>

NextExit ==
    \/ \E s \in ServiceNames : UpdateExitStatus(s)
    \/ \E s \in ServiceNames : StartService(s)
    \/ \E s \in ServiceNames, code \in ExitCodes : ServiceExit(s, code)
    \/ \E service_name \in {Nothing} \cup {Some(s) : s \in ServiceNames},
          killed \in BOOLEAN, oom \in BOOLEAN :
          ExitApp(service_name, killed, oom)

SpecExit == Init /\ [][NextExit]_vars

\* C19: the container-level exit file is written at most once: after
\* exit_app has written it, no operation, a second exit_app included,
\* writes it again.
C19_ExitFileWrittenOnce == Len(exitinfo) <= 1

\* C20: once start_service has refused a service (restart policy exhausted
\* or restart rate exceeded), no later start_service call for that service
\* invokes `s6-svc -o` or returns success.
C20_RefusalAbsorbing ==
    \A s \in ServiceNames :
        (refused[s] /\ Started(s)) =>
            lastOp.result /= "True" /\ ~Invoked(lastOp.effects, s)

(***************************************************************************)
(* Properties of the flush inside start_service (specification SpecStart). *)
(***************************************************************************)
\* The finish log of s has a row that the cursor does not account for.
Unreported(s) ==
    finished[s].exists /\ RowCount(s) > 0 /\ reported[s] /= Some(RowCount(s))

\* The step is a start_service call for s.
StartStep(s) == lastOp'.op = "start_service" /\ lastOp'.svc = s

\* The call posted the exit event of the last row, once, before anything
\* else it did.
FlushedFirst(s, effects) ==
    /\ Len(effects) >= 1
    /\ effects[1] = LastRowEvent(s)
    /\ \A i \in 2..Len(effects) : effects[i][1] /= "exit"

\* C21 as claimed: every start_service call that finds an exit not yet
\* reported posts it, refusals included, before any `s6-svc -o` and any
\* "running" event of the call.
C21_FlushOnEveryCall ==
    [][\A s \in ServiceNames :
          (StartStep(s) /\ Unreported(s))
              => FlushedFirst(s, lastOp'.effects)]_vars

\* C21 as amended: for a workload whose manifest has a task id, every
\* start_service call that finds an exit not yet reported posts it,
\* refusals included, before any `s6-svc -o` and any "running" event of the
\* call, and leaves the cursor at the row count; without a task id the call
\* posts no exit event and leaves the cursor as it is.
C21_FlushBeforeDecide ==
    [][\A s \in ServiceNames :
          (StartStep(s) /\ Unreported(s)) =>
              IF manifest.task /= ""
              THEN /\ FlushedFirst(s, lastOp'.effects)
                   /\ reported'[s] = Some(RowCount(s))
              ELSE /\ \A i \in DOMAIN lastOp'.effects :
                         lastOp'.effects[i][1] /= "exit"
                   /\ reported'[s] = reported[s]]_vars

\* C21 witness: a start_service call that was refused and posted the exit
\* event that no cursor accounted for.
C21_Witness ==
    /\ Started("web") /\ lastOp.result = "False"
    /\ manifest.task /= ""
    /\ lastOp.effects = <<LastRowEvent("web")>>
    /\ lastOp.outcome = "reported"
    /\ lastOp.after.op = "init"

\* The call posted a "running" event for s.
ReportedRunning(effects, s) ==
    \E i \in 1..Len(effects) : effects[i] = <<"running", s>>

\* C22: a start_service call that finds the service up, with the rate not
\* exceeded and the bound allowing a start, invokes no `s6-svc -o`, posts no
\* "running" event, leaves the service up and returns success; and a call
\* invokes `s6-svc -o` only for a service it finds down.
C22_RunningLeftAlone ==
    [][\A s \in ServiceNames :
          StartStep(s) =>
              /\ (up[s] /\ ~RateExceeded(s) /\ BoundAllows(s)) =>
                    /\ lastOp'.result = "True"
                    /\ ~Invoked(lastOp'.effects, s)
                    /\ ~ReportedRunning(lastOp'.effects, s)
                    /\ starts'[s] = starts[s]
                    /\ up'[s]
              /\ (Invoked(lastOp'.effects, s) \/ starts'[s] /= starts[s])
                    => ~up[s]]_vars

\* C22 witness: a service found up, with a down file and an unlimited
\* bound, was left alone by a successful start_service call.
C22_Witness ==
    /\ Started("web") /\ lastOp.result = "True"
    /\ lastOp.after.op = "init"
    /\ up["web"] /\ downFile["web"] /\ Bound("web") = -1
    /\ ~Invoked(lastOp.effects, "web")
    /\ ~ReportedRunning(lastOp.effects, "web")
    /\ starts["web"] = 0

(***************************************************************************)
(* Exit reporting on a finish log without rows (specification              *)
(* SpecEmptyLog): the finish log of the service is missing, or is a file   *)
(* with no row in it yet, or has one row.                                  *)
(***************************************************************************)
EmptyLogs == {NoFinished, Finished(<<>>), Finished(<<Row(0, 1, 0)>>)}

InitEmptyLog ==
    /\ \E task \in {"", "t1"}, rc \in {Some(-1), Some(1), Some(2)} :
          manifest = Manifest(task, <<Service("web", rc)>>)
    /\ iter_order = <<"web">>
    /\ \E f \in EmptyLogs :
          /\ finished = [s \in ServiceNames |->
                           IF s = "web" THEN f ELSE NoFinished]
          /\ \E r \in {Nothing} \cup {Some(n) : n \in 1..Len(f.lines)} :
                reported = [s \in ServiceNames |->
                              IF s = "web" THEN r ELSE Nothing]
    /\ \E u \in BOOLEAN : up = [s \in ServiceNames |-> u /\ s = "web"]
    /\ downFile = [s \in ServiceNames |-> s = "web"]
    /\ last_exit = [s \in ServiceNames |-> Nothing]
    /\ now = StartNow
    /\ exitinfo = <<>>
    /\ InitNoPresence
    /\ InitHist

NextEmptyLog ==
    \/ \E s \in ServiceNames : UpdateExitStatus(s)
    \/ \E s \in ServiceNames : StartService(s)
    \/ \E c \in BOOLEAN : WaitForExit(c)
    \/ \E s \in ServiceNames, code \in ExitCodes : ServiceExit(s, code)

SpecEmptyLog == InitEmptyLog /\ [][NextEmptyLog]_vars

\* C23: an update_exit_status call for a service whose finish log has no
\* row, be the file missing or empty, posts no event, writes no cursor,
\* changes no cached last_exit and raises no error.
C23_NoRowsNoOp ==
    [][\A s \in ServiceNames :
          (/\ lastOp'.op = "update_exit_status" /\ lastOp'.svc = s
           /\ RowCount(s) = 0)
          => /\ lastOp'.result = "None"
             /\ lastOp'.effects = <<>>
             /\ reported' = reported
             /\ last_exit' = last_exit]_vars

(***************************************************************************)
(* Properties of the cursor and of the events of one call (specification   *)
(* Spec).                                                                  *)
(***************************************************************************)
\* C24: the persisted cursor of a service, when present, is at most the
\* number of rows of its finish log; and right after an update_exit_status
\* call that returned, for a manifest with a task id and a finish log with
\* rows, the cursor is the row count the call read.
C24_CursorWithinLog ==
    \A s \in ServiceNames :
        /\ reported[s] /= Nothing => reported[s][1] <= RowCount(s)
        /\ (/\ lastOp.op = "update_exit_status" /\ lastOp.svc = s
            /\ lastOp.result = "None"
            /\ manifest.task /= "" /\ RowCount(s) > 0)
           => reported[s] = Some(RowCount(s))

\* C24 witness: an update_exit_status call has moved the cursor to the
\* count of a two-row finish log.
C24_Witness ==
    /\ lastOp.op = "update_exit_status" /\ lastOp.svc = "web"
    /\ lastOp.outcome = "reported"
    /\ RowCount("web") = 2
    /\ reported["web"] = Some(2)

\* The exit events for s among the effects of an operation.
ExitEvents(effects, s) ==
    SelectSeq(effects, LAMBDA e : e[1] = "exit" /\ e[2] = s)

\* The cursor of s as a number: 0 when it was never written.
Cursor(r, s) == IF r[s] = Nothing THEN 0 ELSE r[s][1]

\* C25: a run of update_exit_status (called directly, by start_service or
\* by wait_for_exit) posts at most one exit event for its service, with the
\* return code and signal of the last row of the finish log; a run that
\* finds k > 1 rows beyond the cursor posts that one event and moves the
\* cursor by k; and the exit events posted, less the repeats after a crash
\* between post and cursor write, never outnumber the rows.
C25_OneEventPerCall ==
    /\ [](\A s \in ServiceNames :
            SumTo(posts[s], RowCap) - SumTo(postCrashes[s], RowCap)
                <= RowCount(s))
    /\ [][\A s \in ServiceNames :
            /\ Len(ExitEvents(lastOp'.effects, s)) <= 1
            /\ Len(ExitEvents(lastOp'.effects, s)) = 1 =>
                  ExitEvents(lastOp'.effects, s) = <<LastRowEvent(s)>>
            /\ (/\ lastOp'.op = "update_exit_status" /\ lastOp'.svc = s
                /\ manifest.task /= ""
                /\ RowCount(s) - Cursor(reported, s) > 1)
               => /\ lastOp'.effects = <<LastRowEvent(s)>>
                  /\ Cursor(reported', s) = RowCount(s)
                  /\ posts'[s][RowCount(s)] = posts[s][RowCount(s)] + 1
                  /\ \A n \in 1..RowCap :
                        n /= RowCount(s) => posts'[s][n] = posts[s][n]]_vars

\* C25 witness: two rows were appended before the cursor was ever written;
\* one update_exit_status call has posted one event, for the second row,
\* and set the cursor to 2.
C25_Witness ==
    /\ lastOp.op = "update_exit_status" /\ lastOp.svc = "web"
    /\ lastOp.outcome = "reported"
    /\ RowCount("web") = 2
    /\ reported["web"] = Some(2)
    /\ posts["web"][1] = 0 /\ posts["web"][2] = 1
    /\ lastOp.effects = <<LastRowEvent("web")>>

====
